---- MODULE Spec2Model ----
(***************************************************************************)
(* The Evolver of django_evolution/evolve.py: one Evolver instance, its    *)
(* task queue, the preparation of the queued tasks and the transactional   *)
(* evolve() run against a database holding executed SQL, Version rows and  *)
(* Evolution rows.                                                         *)
(*                                                                         *)
(* A project signature is kept abstractly as the sequence of mutations     *)
(* that have been simulated on it; the stored baseline signature is the    *)
(* empty sequence.                                                         *)
(***************************************************************************)
EXTENDS Naturals, Sequences, FiniteSets

\* ------------------------------------------------------------------ bounds

\* Most evolve() calls made on the Evolver.
MaxEvolveCalls == 2

\* Most changes made to a signature and its clone.
MaxChanges == 2

\* Most simulate() and mutate() calls made on a dictionary signature.
MaxSimulations == 2

\* signature.py: the version serialize() writes by default.
DEFAULT_SIGNATURE_VERSION == 1

\* ------------------------------------------------------------- vocabulary

\* The registered applications, which can be evolved, and the applications
\* of the stored signature that are no longer registered, which can be purged.
Apps == {"app1", "app2"}
StaleApps == {"old_app"}

\* The labels an evolution sequence is made of, in sequence order.
AllLabels == <<"first_evolution", "second_evolution">>

LabelIndex(label) == CHOOSE i \in 1..Len(AllLabels) : AllLabels[i] = label

\* What a mutation of an evolution is:
\*   sql       a SQLMutation without update_func (cannot be simulated)
\*   model     a model mutation whose simulation succeeds
\*   broken    a model mutation whose simulation raises SimulationFailure
\*   custom    a BaseMutation subclass that keeps the base is_mutable()
MutationKinds == {"sql", "model", "broken", "custom"}

\* The database the Evolver was constructed for (DEFAULT_DB_ALIAS).
database_name == "default"

NoException == "none"

\* ------------------------------------------------------------------ state

VARIABLES
    hinted,          \* Evolver.hinted
    tasks,           \* Evolver._tasks: the queued tasks, in insertion order
    tasks_prepared,  \* Evolver._tasks_prepared
    evolved,         \* Evolver.evolved
    project_sig,     \* Evolver.project_sig, mutated in place by simulation
    catalogue,       \* per app: the kind of mutation of each evolution label
    hint,            \* per app: the mutations of the hinted evolution
    db,              \* the committed database: sql, versions, evolutions
    txn,             \* the database as seen inside the open transaction
    pc,              \* where the running evolve() call is ("idle": none)
    cursor,          \* index of the next task evolve() executes
    new_evolutions,  \* evolve()'s local list of Evolution entries
    signals,         \* the signals sent by the running/last evolve() call
    last,            \* the outcome of the last call made on the Evolver
    call,            \* history of the running/last evolve() call
    old_sig,         \* the project signature of the latest Version
    new_sig,         \* the project signature the database gives
    computed,        \* what was last computed from the two signatures
    heap,            \* the signature objects in memory
    original,        \* the project signature that is cloned
    cloned,          \* its clone (0: not cloned yet)
    touched,         \* which of the two the last change was made to
    n_changes,       \* the changes made so far
    proj_sig_dict,   \* the dictionary signature that mutations simulate on
    simulated,       \* the last simulate() or mutate() call and its outcome
    mutator_ops,     \* the operations scheduled on the mutator
    n_simulated      \* the calls made so far

evolverVars == <<hinted, tasks, tasks_prepared, evolved, project_sig>>
sigVars == <<old_sig, new_sig, computed>>
cloneVars == <<heap, original, cloned, touched, n_changes>>
mutationVars == <<proj_sig_dict, simulated, mutator_ops, n_simulated>>
envVars == <<catalogue, hint, sigVars, cloneVars, mutationVars>>
dbVars == <<db, txn>>
runVars == <<pc, cursor, new_evolutions, signals, call>>
vars == <<evolverVars, envVars, dbVars, runVars, last>>
evolverFrame ==
    <<evolverVars, catalogue, hint, dbVars, runVars, last, cloneVars,
      mutationVars>>
cloneFrame ==
    <<evolverVars, catalogue, hint, dbVars, runVars, last, sigVars,
      mutationVars>>
mutationFrame ==
    <<evolverVars, catalogue, hint, dbVars, runVars, last, sigVars,
      cloneVars>>

\* ---------------------------------------------------------------- helpers

RECURSIVE SeqConcat(_)
SeqConcat(ss) ==
    IF ss = <<>> THEN <<>> ELSE Head(ss) \o SeqConcat(Tail(ss))

Range(s) == {s[i] : i \in 1..Len(s)}

\* The outcome of a call: the exception it raised (or none) and, for an
\* EvolutionExecutionError, the attributes it carries.
Outcome(op, exc) ==
    [op |-> op, arg |-> <<>>, exc |-> exc, ret |-> "none",
     app_label |-> "none", detailed_error |-> "none",
     last_sql_statement |-> "none"]

Returned(op, ret) == [Outcome(op, NoException) EXCEPT !.ret = ret]

\* ------------------------------------------------------------- signatures

\* Python's None and booleans among attribute values, which are all kept as
\* strings.
None == "None"

\* OrderedDict.get / dict lookup on a sequence of entries, keyed by the
\* entry's name field.
Keys(entries, key) == {entries[i][key] : i \in 1..Len(entries)}

Lookup(entries, key, name) ==
    entries[CHOOSE i \in 1..Len(entries) : entries[i][key] = name]

\* d[name] = entry on an OrderedDict: an existing key keeps its place.
Store(entries, key, entry) ==
    IF entry[key] \in Keys(entries, key)
    THEN [i \in 1..Len(entries) |->
            IF entries[i][key] = entry[key] THEN entry ELSE entries[i]]
    ELSE Append(entries, entry)

\* dict.__eq__ on two OrderedDicts: the order of the keys does not count.
\* The dictionaries are equal when they have the same keys and the two
\* values of every key are.
SameKeys(a, b, key) == Keys(a, key) = Keys(b, key)

Paired(a, b, key) ==
    {<<Lookup(a, key, k), Lookup(b, key, k)>> :
        k \in Keys(a, key) \cap Keys(b, key)}

\* dict.update / dict(a, **b) on attribute maps.
Update(f, g) ==
    [k \in DOMAIN f \cup DOMAIN g |-> IF k \in DOMAIN g THEN g[k] ELSE f[k]]

\* The items of a collection that pass "if value": the keys of the mapping
\* whose value is not empty.
NonEmptyKeys_All(empty) == DOMAIN empty

NonEmptyKeys(empty) == {k \in DOMAIN empty : ~empty[k]}

\* FieldSignature._ATTRIBUTE_DEFAULTS['*'] and its per-type entries.
GlobalAttributeDefaults ==
    [primary_key |-> "False", max_length |-> None, unique |-> "False",
     null |-> "False", db_index |-> "False", db_column |-> None,
     db_tablespace |-> ""]

TypeAttributeDefaults(field_type) ==
    CASE field_type = "DecimalField" ->
            [max_digits |-> None, decimal_places |-> None]
      [] field_type = "ForeignKey" -> [db_index |-> "True"]
      [] field_type = "ManyToManyField" -> [db_table |-> None]
      [] field_type = "OneToOneField" -> [db_index |-> "True"]
      [] OTHER -> <<>>

\* FieldSignature._get_defaults_for_field_type.
GetDefaultsForFieldType(field_type) ==
    Update(GlobalAttributeDefaults, TypeAttributeDefaults(field_type))

\* field_type().get_internal_type(); a relation field cannot be built
\* without arguments and raises TypeError.  MoneyField is a project's own
\* subclass of DecimalField.
GetInternalType(field_type) ==
    CASE field_type = "MoneyField" -> "DecimalField"
      [] field_type = "ForeignKey" -> "TypeError"
      [] OTHER -> field_type

FieldSignature(field_name, field_type, field_attrs, related_model) ==
    [field_name |-> field_name, field_type |-> field_type,
     field_attrs |-> field_attrs, related_model |-> related_model]

\* FieldSignature.get_attr_default.
GetAttrDefault(field_sig, attr_name) ==
    IF attr_name \in DOMAIN TypeAttributeDefaults(field_sig.field_type)
    THEN TypeAttributeDefaults(field_sig.field_type)[attr_name]
    ELSE IF attr_name \in DOMAIN GlobalAttributeDefaults
    THEN GlobalAttributeDefaults[attr_name]
    ELSE None

\* FieldSignature.get_attr_value.
GetAttrValue(field_sig, attr_name) ==
    IF attr_name \in DOMAIN field_sig.field_attrs
    THEN field_sig.field_attrs[attr_name]
    ELSE GetAttrDefault(field_sig, attr_name)

\* FieldSignature.diff: the names of the changed attributes.  The sorted
\* list without repetition that the method returns is kept as the set of
\* its elements.
FieldSignatureDiff(field_sig, old_field_sig) ==
    LET changed_attrs ==
            {attr \in DOMAIN old_field_sig.field_attrs
                        \cup DOMAIN field_sig.field_attrs :
                GetAttrValue(field_sig, attr)
                    # GetAttrValue(old_field_sig, attr)}
        old_field_type == old_field_sig.field_type
        new_field_type == field_sig.field_type
        field_type_changed ==
            /\ old_field_type # new_field_type
            /\ \/ GetInternalType(old_field_type) = "TypeError"
               \/ GetInternalType(new_field_type) = "TypeError"
               \/ GetInternalType(old_field_type)
                    # GetInternalType(new_field_type)
    IN  changed_attrs
            \cup (IF field_type_changed THEN {"field_type"} ELSE {})
            \cup (IF old_field_sig.related_model # field_sig.related_model
                  THEN {"related_model"} ELSE {})

\* FieldSignature.__eq__.
FieldSignatureEq(a, b) ==
    /\ a.field_name = b.field_name
    /\ a.field_type = b.field_type
    /\ a.field_attrs = b.field_attrs
    /\ a.related_model = b.related_model

IndexSignature(fields, name) == [fields |-> fields, name |-> name]

\* IndexSignature.__eq__: a name that is not set equals an empty one.
IndexSignatureEq(a, b) ==
    /\ \/ (a.name \in {None, ""} /\ b.name \in {None, ""})
       \/ a.name = b.name
    /\ a.fields = b.fields

\* list.__eq__ on two lists of index signatures.
IndexListEq(a, b) ==
    /\ Len(a) = Len(b)
    /\ \A i \in 1..Len(a) : IndexSignatureEq(a[i], b[i])

\* set(index_sigs): IndexSignature.__hash__ is the hash of the repr, so two
\* entries are one element when their name and fields are identical.
IndexSet(index_sigs) == {index_sigs[i] : i \in 1..Len(index_sigs)}

\* A <field>_together value as a caller gives it: a tuple or list of
\* tuples, or one flat tuple of field names.
Together(nested, items) == [nested |-> nested, items |-> items]

\* ModelSignature._normalize_together.
NormalizeTogether(together) ==
    IF together.items = <<>> THEN <<>>
    ELSE IF ~together.nested THEN <<together.items>>
    ELSE together.items

\* ModelSignature.__init__; the flag and the entries are set afterwards.
ModelSignature(model_name, table_name, db_tablespace, index_together, pk_column, unique_together) ==
    [model_name |-> model_name, table_name |-> table_name,
     db_tablespace |-> db_tablespace,
     index_together |-> NormalizeTogether(index_together),
     pk_column |-> pk_column,
     unique_together |-> NormalizeTogether(unique_together),
     index_sigs |-> <<>>, field_sigs |-> <<>>,
     unique_together_applied |-> FALSE]

\* HasUniqueTogetherChanged, were an unapplied unique_together taken as
\* changed even when it is empty on both sides.
HasUniqueTogetherChanged_EmptyToo(model_sig, old_model_sig) ==
    \/ old_model_sig.unique_together # model_sig.unique_together
    \/ ~old_model_sig.unique_together_applied

\* ModelSignature.has_unique_together_changed.
HasUniqueTogetherChanged(model_sig, old_model_sig) ==
    \/ old_model_sig.unique_together # model_sig.unique_together
    \/ /\ (old_model_sig.unique_together # <<>>
            \/ model_sig.unique_together # <<>>)
       /\ ~old_model_sig.unique_together_applied

\* ModelSignature.__eq__.
ModelSignatureEq(model_sig, other) ==
    /\ model_sig.table_name = other.table_name
    /\ model_sig.db_tablespace = other.db_tablespace
    /\ IndexSet(model_sig.index_sigs) = IndexSet(other.index_sigs)
    /\ Range(NormalizeTogether(Together(TRUE, model_sig.index_together)))
         = Range(NormalizeTogether(Together(TRUE, other.index_together)))
    /\ model_sig.model_name = other.model_name
    /\ model_sig.pk_column = other.pk_column
    /\ SameKeys(model_sig.field_sigs, other.field_sigs, "field_name")
    /\ \A p \in Paired(model_sig.field_sigs, other.field_sigs, "field_name") :
          FieldSignatureEq(p[1], p[2])
    /\ ~HasUniqueTogetherChanged(model_sig, other)

\* The names of the entries of an OrderedDict, in its order.
Names(entries, key) == [i \in 1..Len(entries) |-> entries[i][key]]

\* ModelSignature.diff.  The mapping returned holds only the keys whose value
\* is not empty; 'changed' maps a field name to FieldSignature.diff.
ModelSignatureDiff(model_sig, old_model_sig) ==
    LET new_fields == model_sig.field_sigs
        old_fields == old_model_sig.field_sigs
        changed_names ==
            {n \in Keys(old_fields, "field_name") :
                /\ n \in Keys(new_fields, "field_name")
                /\ FieldSignatureDiff(Lookup(new_fields, "field_name", n),
                                      Lookup(old_fields, "field_name", n))
                     # {}}
        changed_fields ==
            [n \in changed_names |->
                FieldSignatureDiff(Lookup(new_fields, "field_name", n),
                                   Lookup(old_fields, "field_name", n))]
        deleted_fields ==
            SelectSeq(Names(old_fields, "field_name"),
                      LAMBDA n : n \notin Keys(new_fields, "field_name"))
        added_fields ==
            SelectSeq(Names(new_fields, "field_name"),
                      LAMBDA n : n \notin Keys(old_fields, "field_name"))
        meta_changed ==
            (IF HasUniqueTogetherChanged(model_sig, old_model_sig)
             THEN <<"unique_together">> ELSE <<>>)
            \o (IF model_sig.index_together # old_model_sig.index_together
                THEN <<"index_together">> ELSE <<>>)
            \o (IF ~IndexListEq(model_sig.index_sigs,
                                old_model_sig.index_sigs)
                THEN <<"indexes">> ELSE <<>>)
        empty == [added |-> added_fields = <<>>,
                  changed |-> changed_names = {},
                  deleted |-> deleted_fields = <<>>,
                  meta_changed |-> meta_changed = <<>>]
    IN  [k \in NonEmptyKeys(empty) |->
            CASE k = "added" -> added_fields
              [] k = "changed" -> changed_fields
              [] k = "deleted" -> deleted_fields
              [] OTHER -> meta_changed]

AppSignature(app_id, model_sigs) ==
    [app_id |-> app_id, model_sigs |-> model_sigs]

\* AppSignature.diff.
AppSignatureDiff(app_sig, old_app_sig) ==
    LET new_models == app_sig.model_sigs
        old_models == old_app_sig.model_sigs
        changed_names ==
            {n \in Keys(old_models, "model_name") :
                /\ n \in Keys(new_models, "model_name")
                /\ DOMAIN ModelSignatureDiff(
                        Lookup(new_models, "model_name", n),
                        Lookup(old_models, "model_name", n)) # {}}
        changed_models ==
            [n \in changed_names |->
                ModelSignatureDiff(Lookup(new_models, "model_name", n),
                                   Lookup(old_models, "model_name", n))]
        deleted_models ==
            SelectSeq(Names(old_models, "model_name"),
                      LAMBDA n : n \notin Keys(new_models, "model_name"))
        empty == [changed |-> changed_names = {},
                  deleted |-> deleted_models = <<>>]
    IN  [k \in NonEmptyKeys(empty) |->
            IF k = "changed" THEN changed_models ELSE deleted_models]

\* AppSignature.__eq__.
AppSignatureEq(app_sig, other) ==
    /\ app_sig.app_id = other.app_id
    /\ SameKeys(app_sig.model_sigs, other.model_sigs, "model_name")
    /\ \A p \in Paired(app_sig.model_sigs, other.model_sigs, "model_name") :
          ModelSignatureEq(p[1], p[2])

ProjectSignature(app_sigs) == [app_sigs |-> app_sigs]

\* ProjectSignature.diff: 'deleted' maps each application of the old
\* signature that is gone to the names of its models.
ProjectSignatureDiff(project_sig_arg, old_project_sig) ==
    LET new_apps == project_sig_arg.app_sigs
        old_apps == old_project_sig.app_sigs
        changed_names ==
            {n \in Keys(old_apps, "app_id") :
                /\ n \in Keys(new_apps, "app_id")
                /\ DOMAIN AppSignatureDiff(Lookup(new_apps, "app_id", n),
                                           Lookup(old_apps, "app_id", n))
                     # {}}
        changed_apps ==
            [n \in changed_names |->
                AppSignatureDiff(Lookup(new_apps, "app_id", n),
                                 Lookup(old_apps, "app_id", n))]
        deleted_names ==
            Keys(old_apps, "app_id") \ Keys(new_apps, "app_id")
        deleted_apps ==
            [n \in deleted_names |->
                Names(Lookup(old_apps, "app_id", n).model_sigs,
                      "model_name")]
        empty == [changed |-> changed_names = {},
                  deleted |-> deleted_names = {}]
    IN  [k \in NonEmptyKeys(empty) |->
            IF k = "changed" THEN changed_apps ELSE deleted_apps]

\* ProjectSignature.__eq__.
ProjectSignatureEq(project_sig_arg, other) ==
    /\ SameKeys(project_sig_arg.app_sigs, other.app_sigs, "app_id")
    /\ \A p \in Paired(project_sig_arg.app_sigs, other.app_sigs, "app_id") :
          AppSignatureEq(p[1], p[2])

\* ----------------------------------------------------------- serialization

\* Whether a value passes "if value".
Truthy(value) == value \notin {None, ""}

\* FieldSignature._ATTRIBUTE_ALIASES.
AttributeAlias(attr) ==
    CASE attr = "unique" -> "_unique"
      [] attr = "rel" -> "remote_field"
      [] OTHER -> None

\* FieldSignature.serialize: one flat dictionary.
FieldSignatureSerialize(field_sig) ==
    LET field_sig_dict ==
            Update([field_type |-> field_sig.field_type],
                   field_sig.field_attrs)
    IN  IF Truthy(field_sig.related_model)
        THEN Update(field_sig_dict,
                    [related_model |-> field_sig.related_model])
        ELSE field_sig_dict

\* FieldSignatureDeserialize, were every key of the dictionary that is not
\* field_type or related_model loaded as an attribute.
FieldSignatureDeserialize_AllKeys(field_name, field_sig_dict) ==
    FieldSignature(
        field_name, field_sig_dict.field_type,
        [attr \in DOMAIN field_sig_dict \ {"field_type", "related_model"}
            |-> field_sig_dict[attr]],
        IF "related_model" \in DOMAIN field_sig_dict
        THEN field_sig_dict.related_model ELSE None)

\* FieldSignature.deserialize: only the attributes that the defaults table
\* lists for the field type are loaded.
FieldSignatureDeserialize(field_name, field_sig_dict) ==
    LET field_type == field_sig_dict.field_type
        loaded ==
            {attr \in DOMAIN GetDefaultsForFieldType(field_type) :
                \/ AttributeAlias(attr) \in DOMAIN field_sig_dict
                \/ attr \in DOMAIN field_sig_dict}
    IN  FieldSignature(
            field_name, field_type,
            [attr \in loaded |->
                IF AttributeAlias(attr) \in DOMAIN field_sig_dict
                THEN field_sig_dict[AttributeAlias(attr)]
                ELSE field_sig_dict[attr]],
            IF "related_model" \in DOMAIN field_sig_dict
            THEN field_sig_dict.related_model ELSE None)

\* IndexSignature.serialize and IndexSignature.deserialize.
IndexSignatureSerialize(index_sig) ==
    IF Truthy(index_sig.name)
    THEN [fields |-> index_sig.fields, name |-> index_sig.name]
    ELSE [fields |-> index_sig.fields]

IndexSignatureDeserialize(index_sig_dict) ==
    IndexSignature(index_sig_dict.fields,
                   IF "name" \in DOMAIN index_sig_dict
                   THEN index_sig_dict.name ELSE None)

\* ModelSignature.serialize; the key '__unique_together_applied' of 'meta'
\* is named unique_together_applied here.
ModelSignatureSerialize(model_sig) ==
    [meta |->
        [db_table |-> model_sig.table_name,
         db_tablespace |-> model_sig.db_tablespace,
         index_together |-> model_sig.index_together,
         indexes |-> [i \in 1..Len(model_sig.index_sigs) |->
                         IndexSignatureSerialize(model_sig.index_sigs[i])],
         pk_column |-> model_sig.pk_column,
         unique_together |-> model_sig.unique_together,
         unique_together_applied |-> model_sig.unique_together_applied],
     fields |->
        [i \in 1..Len(model_sig.field_sigs) |->
            [key |-> model_sig.field_sigs[i].field_name,
             value |-> FieldSignatureSerialize(model_sig.field_sigs[i])]]]

RECURSIVE StoreAll(_, _, _)
StoreAll(entries, key, added) ==
    IF added = <<>> THEN entries
    ELSE StoreAll(Store(entries, key, Head(added)), key, Tail(added))

\* ModelSignature.deserialize.
ModelSignatureDeserialize(model_name, model_sig_dict) ==
    LET meta_sig_dict == model_sig_dict.meta
        fields_sig_dict == model_sig_dict.fields
        model_sig ==
            ModelSignature(model_name, meta_sig_dict.db_table,
                           meta_sig_dict.db_tablespace,
                           Together(TRUE, meta_sig_dict.index_together),
                           meta_sig_dict.pk_column,
                           Together(TRUE, meta_sig_dict.unique_together))
    IN  [model_sig EXCEPT
            !.unique_together_applied =
                meta_sig_dict.unique_together_applied,
            !.index_sigs =
                [i \in 1..Len(meta_sig_dict.indexes) |->
                    IndexSignatureDeserialize(meta_sig_dict.indexes[i])],
            !.field_sigs =
                StoreAll(<<>>, "field_name",
                         [i \in 1..Len(fields_sig_dict) |->
                             FieldSignatureDeserialize(
                                 fields_sig_dict[i].key,
                                 fields_sig_dict[i].value)])]

\* AppSignature.serialize and AppSignature.deserialize.
AppSignatureSerialize(app_sig) ==
    [i \in 1..Len(app_sig.model_sigs) |->
        [key |-> app_sig.model_sigs[i].model_name,
         value |-> ModelSignatureSerialize(app_sig.model_sigs[i])]]

AppSignatureDeserialize(app_id, app_sig_dict) ==
    AppSignature(app_id,
                 StoreAll(<<>>, "model_name",
                          [i \in 1..Len(app_sig_dict) |->
                              ModelSignatureDeserialize(
                                  app_sig_dict[i].key,
                                  app_sig_dict[i].value)]))

\* ProjectSignature.serialize: the '__version__' entry, then one entry per
\* application.
ProjectSignatureSerialize(project_sig_arg, sig_version) ==
    StoreAll(<<[key |-> "__version__", value |-> sig_version]>>, "key",
             [i \in 1..Len(project_sig_arg.app_sigs) |->
                 [key |-> project_sig_arg.app_sigs[i].app_id,
                  value |-> AppSignatureSerialize(
                                project_sig_arg.app_sigs[i])]])

\* ProjectSignature.deserialize.
ProjectSignatureDeserialize(project_sig_dict) ==
    LET app_entries ==
            SelectSeq(project_sig_dict, LAMBDA e : e.key # "__version__")
    IN  ProjectSignature(
            StoreAll(<<>>, "app_id",
                     [i \in 1..Len(app_entries) |->
                         AppSignatureDeserialize(app_entries[i].key,
                                                 app_entries[i].value)]))

\* ------------------------------------------- the signatures that are tried

\* The field signatures the models are built from.
AgeField == FieldSignature("age", "IntegerField", <<>>, None)
AgeNullField == FieldSignature("age", "IntegerField", [null |-> "True"], None)
AgeExplicitField ==
    FieldSignature("age", "IntegerField", [null |-> "False"], None)
AgeCharField ==
    FieldSignature("age", "CharField", [max_length |-> "10"], None)
NicknameField ==
    FieldSignature("nickname", "CharField",
                   [max_length |-> "10", null |-> "True"], None)
AliasField ==
    FieldSignature("alias", "CharField",
                   [max_length |-> "10", null |-> "True"], None)
PriceField ==
    FieldSignature("price", "MoneyField", [max_digits |-> "10"], None)
OwnerField == FieldSignature("owner", "ForeignKey", <<>>, "app1.N")

\* A model signature as ModelSignature.from_model or a simulation leaves it.
Model(model_name, field_sigs, unique_together, applied, index_together, index_sigs) ==
    [ModelSignature(model_name, model_name, None,
                    Together(TRUE, index_together), "id",
                    Together(TRUE, unique_together))
        EXCEPT !.field_sigs = field_sigs,
               !.unique_together_applied = applied,
               !.index_sigs = index_sigs]

\* The variants of the model M: the unique_together, index_together and
\* index variants of two field lists, and the other field lists.
MetaVariants ==
    {[unique_together |-> u, applied |-> a, index_together |-> <<>>,
      index_sigs |-> <<>>] :
        u \in {<<>>, << <<"age">> >>}, a \in BOOLEAN}
    \cup {[unique_together |-> <<>>, applied |-> TRUE,
           index_together |-> << <<"age">> >>, index_sigs |-> <<>>],
          [unique_together |-> <<>>, applied |-> TRUE,
           index_together |-> <<>>,
           index_sigs |-> <<IndexSignature(<<"age">>, None)>>]}

FieldLists ==
    {<<AgeNullField>>, <<AgeExplicitField>>, <<AgeCharField>>,
     <<NicknameField, AgeField>>, <<AgeField, AliasField>>,
     <<AgeField, PriceField>>, <<AgeField, OwnerField>>}

ModelVariants ==
    {Model("M", f, m.unique_together, m.applied, m.index_together,
           m.index_sigs) :
        f \in {<<AgeField>>, <<AgeField, NicknameField>>},
        m \in MetaVariants}
    \cup {Model("M", f, <<>>, TRUE, <<>>, <<>>) : f \in FieldLists}

OtherModel == Model("N", <<AgeField>>, <<>>, TRUE, <<>>, <<>>)

\* The project signatures tried: app1 with a variant of M or without it,
\* with or without N, next to old_app (which has no model) or not; and the
\* projects without app1.
ProjectSignatures ==
    {ProjectSignature(
        <<AppSignature("app1", m \o n)>> \o o) :
        m \in {<<>>} \cup {<<v>> : v \in ModelVariants},
        n \in {<<>>, <<OtherModel>>},
        o \in {<<>>, <<AppSignature("old_app", <<>>)>>}}
    \cup {ProjectSignature(<<>>),
          ProjectSignature(<<AppSignature("old_app", <<>>)>>)}

NotComputed == [op |-> "none"]

\* ------------------------------------------------------------------ tasks

EvolveAppTask(app) ==
    [id |-> <<"evolve-app", app>>, type |-> "EvolveAppTask",
     app_label |-> app,
     can_simulate |-> FALSE, evolution_required |-> FALSE,
     new_evolutions |-> <<>>, sql |-> <<>>, mutations |-> <<>>,
     n_prepare |-> 0, prepared |-> FALSE, n_execute |-> 0]

PurgeAppTask(app) ==
    [id |-> <<"purge-app", app>>, type |-> "PurgeAppTask",
     app_label |-> app,
     can_simulate |-> FALSE, evolution_required |-> FALSE,
     new_evolutions |-> <<>>, sql |-> <<>>, mutations |-> <<>>,
     n_prepare |-> 0, prepared |-> FALSE, n_execute |-> 0]

\* The tasks a caller can build, each named by its class and application,
\* and the task so named as it is when built.
NewTasks ==
    {<<"EvolveAppTask", a>> : a \in Apps}
        \cup {<<"PurgeAppTask", a>> : a \in StaleApps}

NewTask(new) ==
    IF new[1] = "EvolveAppTask"
    THEN EvolveAppTask(new[2]) ELSE PurgeAppTask(new[2])

TaskIds(ts) == {ts[i].id : i \in 1..Len(ts)}

\* --------------------------------------------------------------- mutations

\* A mutation of an evolution; the model mutations of the catalogues are
\* mutations of the model M.
Mutation(app, label, kind) ==
    [app |-> app, label |-> label, kind |-> kind,
     model_name |-> IF kind \in {"model", "broken"} THEN "M" ELSE None]

DeleteApplication(app) == Mutation(app, "none", "delete_application")

\* BaseMutation.is_mutable, MonoBaseMutation.is_mutable, SQLMutation.is_mutable
\* and DeleteApplication.is_mutable, for the database being evolved.
IsMutable(mutation, database) ==
    CASE mutation.kind = "sql" -> TRUE
      [] mutation.kind = "delete_application" -> TRUE
      [] mutation.kind = "custom" -> FALSE
      [] OTHER ->
            \* db_name = database or get_database_for_model_name(...)
            LET db_name == IF database # "" THEN database ELSE "default"
            IN  db_name # "" /\ db_name = database

\* get_evolution_sequence: the labels of the app's evolutions.
GetEvolutionSequence(app) ==
    [i \in 1..Len(catalogue[app]) |-> AllLabels[i]]

\* GetUnappliedEvolutions, were the Evolution rows not filtered by app_label.
GetUnappliedEvolutions_AnyApp(app, database) ==
    LET applied == {database.evolutions[i].label :
                        i \in 1..Len(database.evolutions)}
    IN  SelectSeq(GetEvolutionSequence(app), LAMBDA l : l \notin applied)

\* get_unapplied_evolutions: the labels of the sequence with no Evolution
\* row of that app in the database.
GetUnappliedEvolutions(app, database) ==
    LET applied == {database.evolutions[i].label :
                        i \in {j \in 1..Len(database.evolutions) :
                                 database.evolutions[j].app_label = app}}
    IN  SelectSeq(GetEvolutionSequence(app), LAMBDA l : l \notin applied)

\* The start of get_mutations: the mutations of the given evolutions, in
\* order.
GetMutations(app, evolution_labels) ==
    [i \in 1..Len(evolution_labels) |->
        Mutation(app, evolution_labels[i],
                 catalogue[app][LabelIndex(evolution_labels[i])])]

\* Whether the mutation has a model_name attribute (MonoBaseMutation).
HasModelName(mutation) ==
    mutation.kind \notin {"sql", "custom", "delete_application",
                          "SQLMutation", "DeleteApplication"}

\* old_model_sig != model_sig, old_model_sig being what get_model_sig
\* returned: with None on the left Python evaluates
\* model_sig.__ne__(None), and ModelSignature.__eq__ reads
\* other.table_name.
ModelSignatureNe(present, old_model_sigs, model_sig) ==
    IF ~present THEN "AttributeError"
    ELSE IF ModelSignatureEq(
                Lookup(old_model_sigs, "model_name", model_sig.model_name),
                model_sig)
    THEN "False" ELSE "True"

\* The end of get_mutations: with a signature of the app both in the latest
\* Version and in the database, only the mutations of the models found
\* changed are kept, along with those without model_name and RenameModel.
FilterMutations(mutations, old_project_sig, project_sig_arg, app_id) ==
    IF ~(app_id \in Keys(old_project_sig.app_sigs, "app_id")
         /\ app_id \in Keys(project_sig_arg.app_sigs, "app_id"))
    THEN [mutations |-> mutations, exc |-> NoException]
    ELSE
    LET old_app_sig == Lookup(old_project_sig.app_sigs, "app_id", app_id)
        app_sig == Lookup(project_sig_arg.app_sigs, "app_id", app_id)
        old_names == Keys(old_app_sig.model_sigs, "model_name")
        differs(model_sig) ==
            ModelSignatureNe(model_sig.model_name \in old_names,
                             old_app_sig.model_sigs, model_sig)
        changed_models ==
            {m.model_name : m \in {x \in Range(app_sig.model_sigs) :
                                      differs(x) = "True"}}
            \cup (old_names \ Keys(app_sig.model_sigs, "model_name"))
    IN  IF \E m \in Range(app_sig.model_sigs) :
                differs(m) = "AttributeError"
        THEN [mutations |-> <<>>, exc |-> "AttributeError"]
        ELSE [mutations |->
                SelectSeq(mutations,
                          LAMBDA m : \/ ~HasModelName(m)
                                     \/ m.model_name \in changed_models
                                     \/ m.kind = "RenameModel"),
              exc |-> NoException]

\* The mutations of the hinted evolution of the app (Diff.evolution()).
HintedEvolution(app) ==
    [i \in 1..Len(hint[app]) |-> Mutation(app, "hinted", hint[app][i])]

\* The SQL statement a mutation is rendered to.
Statement(mutation) == [sql_for |-> mutation]

\* Mutation.simulate applied in place to the signature.
Simulate(sig, mutation) == Append(sig, mutation)

\* AppMutator.run_mutations followed by can_simulate and to_sql: every
\* mutation is simulated on the Evolver's project signature, in order, and
\* rendered to SQL.  A SimulationFailure ends the run where it is raised; a
\* mutation that cannot be simulated leaves the signature alone and makes
\* can_simulate false.
RECURSIVE RunMutations(_, _)
RunMutations(state, mutations) ==
    IF mutations = <<>> THEN state
    ELSE LET m == Head(mutations) IN
         CASE m.kind = "broken" ->
                [state EXCEPT !.exc = "SimulationFailure"]
           [] m.kind = "sql" ->
                RunMutations([state EXCEPT !.can_simulate = FALSE,
                                           !.sql = Append(@, Statement(m))],
                             Tail(mutations))
           [] OTHER ->
                RunMutations([state EXCEPT !.sig = Simulate(@, m),
                                           !.sql = Append(@, Statement(m))],
                             Tail(mutations))

AppMutatorFromEvolver(sig) ==
    [sig |-> sig, can_simulate |-> TRUE, sql |-> <<>>, exc |-> NoException]

\* Evolution(app_label=..., label=...), not yet attached to a Version.
Evolution(app_label, label) == [app_label |-> app_label, label |-> label]

\* EvolveAppTask.prepare.  The result holds the task, on which it is
\* recorded that prepare returned, the project signature and the exception
\* that escaped (or none).
EvolveAppTaskPrepare(task, sig, hinted_arg, database) ==
    LET app == task.app_label
        evolutions ==
            IF hinted_arg THEN <<>>
            ELSE GetUnappliedEvolutions(app, database)
        loaded ==
            FilterMutations(GetMutations(app, evolutions), old_sig, new_sig,
                            app)
        pending_mutations ==
            IF hinted_arg THEN HintedEvolution(app) ELSE loaded.mutations
        mutations ==
            SelectSeq(pending_mutations,
                      LAMBDA m : IsMutable(m, database_name))
        run == RunMutations(AppMutatorFromEvolver(sig), mutations)
    IN  IF ~hinted_arg /\ loaded.exc # NoException
        THEN [task |-> task, sig |-> sig, exc |-> loaded.exc]
        ELSE IF mutations = <<>>
        THEN [task |-> [task EXCEPT !.prepared = TRUE], sig |-> sig,
              exc |-> NoException]
        ELSE IF run.exc # NoException
        THEN [task |-> task, sig |-> run.sig, exc |-> run.exc]
        ELSE [task |-> [task EXCEPT
                          !.prepared = TRUE,
                          !.can_simulate = run.can_simulate,
                          !.sql = run.sql,
                          !.evolution_required = TRUE,
                          !.new_evolutions =
                              [i \in 1..Len(evolutions) |->
                                  Evolution(app, evolutions[i])],
                          !.mutations = mutations],
              sig |-> run.sig, exc |-> NoException]

\* PurgeAppTask.prepare.
PurgeAppTaskPrepare(task, sig) ==
    LET mutation == DeleteApplication(task.app_label)
        run == RunMutations(AppMutatorFromEvolver(sig), <<mutation>>)
        purged ==
            IF IsMutable(mutation, database_name)
            THEN [task EXCEPT !.evolution_required = TRUE, !.sql = run.sql]
            ELSE task
    IN  [task |-> [purged EXCEPT !.prepared = TRUE,
                                 !.can_simulate = TRUE,
                                 !.new_evolutions = <<>>],
         sig |-> IF IsMutable(mutation, database_name) THEN run.sig ELSE sig,
         exc |-> NoException]

\* task.prepare(hinted=...): the call is counted on the task.
TaskPrepare(task, sig, hinted_arg, database) ==
    LET counted == [task EXCEPT !.n_prepare = @ + 1]
    IN  IF task.type = "PurgeAppTask"
        THEN PurgeAppTaskPrepare(counted, sig)
        ELSE EvolveAppTaskPrepare(counted, sig, hinted_arg, database)

\* The loop of _prepare_tasks from task i on: it stops at the first task
\* whose prepare raises.
RECURSIVE PrepareLoop(_, _, _)
PrepareLoop(state, i, database) ==
    IF i > Len(state.tasks) THEN state
    ELSE LET r == TaskPrepare(state.tasks[i], state.sig, hinted, database)
             next == [tasks |-> [state.tasks EXCEPT ![i] = r.task],
                      sig |-> r.sig, exc |-> r.exc]
         IN  IF r.exc # NoException THEN next
             ELSE PrepareLoop(next, i + 1, database)

\* PrepareTasks, without the test of _tasks_prepared.
PrepareTasks_Always ==
    PrepareLoop([tasks |-> tasks, sig |-> project_sig,
                 exc |-> NoException], 1, db)

\* Evolver._prepare_tasks: a no-op once the tasks were prepared.
PrepareTasks ==
    IF tasks_prepared
    THEN [tasks |-> tasks, sig |-> project_sig, exc |-> NoException]
    ELSE PrepareLoop([tasks |-> tasks, sig |-> project_sig,
                      exc |-> NoException], 1, db)

\* ------------------------------------------------------------------- Init

\* The evolution catalogues an application may come with: the kind of the
\* mutation of each label of its sequence.
Catalogues ==
    {<<>>, <<"model">>, <<"custom">>, <<"model", "broken">>,
     <<"model", "sql">>}

\* The hinted evolutions the initial diff may hold for an application.
HintedEvolutions == {<<>>, <<"model">>, <<"sql">>}

\* The databases an Evolver is constructed on: the baseline Version with the
\* stored signature, and the Evolution rows recorded with it.
BaselineDatabases ==
    {[sql |-> <<>>, versions |-> << <<>> >>, evolutions |-> evs] :
        evs \in {<<>>,
                 <<[app_label |-> "app1", label |-> AllLabels[1],
                    version |-> 1]>>}}

\* The history of an evolve() call: its number, the database when it was
\* made, the tasks whose execute it called, the task whose execute raised
\* (0: none), whether the saving of the Version raised, its outcome, and
\* the signals sent and the statements run by the tasks, in the order in
\* which they happened.
CallHistory(n, database, outcome) ==
    [n |-> n, db_before |-> database, executed |-> <<>>, failed_at |-> 0,
     save_failed |-> FALSE, outcome |-> outcome, events |-> <<>>]

\* The schema of the project an Evolver works on: in the latest Version the
\* model M of each registered application has one field and old_app is
\* still there, in the database M has two fields.
BaselineProjectSig ==
    ProjectSignature(
        <<AppSignature("app1",
              <<Model("M", <<AgeField>>, <<>>, TRUE, <<>>, <<>>)>>),
          AppSignature("app2",
              <<Model("M", <<AgeField>>, <<>>, TRUE, <<>>, <<>>)>>),
          AppSignature("old_app", <<>>)>>)

DatabaseProjectSig ==
    ProjectSignature(
        <<AppSignature("app1",
              <<Model("M", <<AgeField, NicknameField>>, <<>>, TRUE, <<>>,
                      <<>>)>>),
          AppSignature("app2",
              <<Model("M", <<AgeField, NicknameField>>, <<>>, TRUE, <<>>,
                      <<>>)>>)>>)

\* No mutation is simulated on a dictionary signature.
NothingSimulated ==
    /\ proj_sig_dict = <<>>
    /\ simulated = [op |-> "none"]
    /\ mutator_ops = <<>>
    /\ n_simulated = 0

\* No signature object is in memory.
NothingCloned ==
    /\ heap = <<>>
    /\ original = 0
    /\ cloned = 0
    /\ touched = "none"
    /\ n_changes = 0
    /\ NothingSimulated

\* An Evolver that is constructed and left alone.
EvolverInit ==
    /\ hinted = FALSE
    /\ catalogue = [a \in Apps |-> <<>>]
    /\ hint = [a \in Apps |-> <<>>]
    /\ tasks = <<>>
    /\ tasks_prepared = FALSE
    /\ evolved = FALSE
    /\ project_sig = <<>>
    /\ db = [sql |-> <<>>, versions |-> << <<>> >>, evolutions |-> <<>>]
    /\ txn = db
    /\ pc = "idle"
    /\ cursor = 0
    /\ new_evolutions = <<>>
    /\ signals = <<>>
    /\ last = Outcome("init", NoException)
    /\ call = CallHistory(0, db, Outcome("init", NoException))

\* Evolver.__init__.  A hinted Evolver never reads the catalogues and the
\* others never read the hinted evolution, so the input that is not read is
\* left empty.
Init ==
    /\ hinted \in BOOLEAN
    /\ catalogue \in [Apps -> Catalogues]
    /\ hint \in [Apps -> HintedEvolutions]
    /\ hinted => \A a \in Apps : catalogue[a] = <<>>
    /\ ~hinted => \A a \in Apps : hint[a] = <<>>
    /\ tasks = <<>>
    /\ tasks_prepared = FALSE
    /\ evolved = FALSE
    /\ project_sig = <<>>
    /\ db \in BaselineDatabases
    /\ hinted => db.evolutions = <<>>
    /\ txn = db
    /\ pc = "idle"
    /\ cursor = 0
    /\ new_evolutions = <<>>
    /\ signals = <<>>
    /\ last = Outcome("init", NoException)
    /\ call = CallHistory(0, db, Outcome("init", NoException))
    /\ old_sig = BaselineProjectSig
    /\ new_sig = DatabaseProjectSig
    /\ computed = NotComputed
    /\ NothingCloned

\* ---------------------------------------------------------------- queuing

\* QueueTaskResult, without the check of _tasks_prepared.
QueueTaskResult_NoPreparedCheck(task) ==
    IF task.id \in TaskIds(tasks)
    THEN [tasks |-> tasks, exc |-> "EvolutionTaskAlreadyQueuedError"]
    ELSE [tasks |-> Append(tasks, task), exc |-> NoException]

\* QueueTaskResult, without the check of the task id: the assignment
\* replaces the task queued under that id.
QueueTaskResult_Overwrite(task) ==
    IF tasks_prepared
    THEN [tasks |-> tasks, exc |-> "QueueEvolverTaskError"]
    ELSE IF task.id \in TaskIds(tasks)
    THEN [tasks |-> [i \in 1..Len(tasks) |->
                        IF tasks[i].id = task.id THEN task ELSE tasks[i]],
          exc |-> NoException]
    ELSE [tasks |-> Append(tasks, task), exc |-> NoException]

\* Evolver.queue_task: the queue afterwards and the exception raised.
QueueTaskResult(task) ==
    IF tasks_prepared
    THEN [tasks |-> tasks, exc |-> "QueueEvolverTaskError"]
    ELSE IF task.id \in TaskIds(tasks)
    THEN [tasks |-> tasks, exc |-> "EvolutionTaskAlreadyQueuedError"]
    ELSE [tasks |-> Append(tasks, task), exc |-> NoException]

Queue(op, new) ==
    LET task == NewTask(new)
        r == QueueTaskResult(task)
    IN
    /\ pc = "idle"
    /\ tasks' = r.tasks
    /\ last' = [Outcome(op, r.exc) EXCEPT !.arg = task.id]
    /\ UNCHANGED <<hinted, tasks_prepared, evolved, project_sig>>
    /\ UNCHANGED <<envVars, dbVars, runVars>>

\* Evolver.queue_task called with a task the caller built.
QueueTask == \E new \in NewTasks : Queue("queue_task", new)

\* Evolver.queue_evolve_app: the duplicate error is raised again with
\* another message, any other error passes through.
QueueEvolveApp ==
    \E app \in Apps : Queue("queue_evolve_app", <<"EvolveAppTask", app>>)

\* Evolver.queue_purge_app.
QueuePurgeApp ==
    \E app \in StaleApps : Queue("queue_purge_app", <<"PurgeAppTask", app>>)

\* ------------------------------------------------------- reading the tasks

\* CanSimulateValue, were the tasks requiring no evolution not let through.
CanSimulateValue_AttributeOnly(ts) ==
    \A i \in 1..Len(ts) : ts[i].can_simulate

\* What each reading operation returns from the prepared tasks.
CanSimulateValue(ts) ==
    \A i \in 1..Len(ts) : ts[i].can_simulate \/ ~ts[i].evolution_required

EvolutionRequiredValue(ts) ==
    \E i \in 1..Len(ts) : ts[i].evolution_required

\* EvolveAppTask.get_evolution_content is None without mutations.
EvolutionContentValue(ts) ==
    SelectSeq([i \in 1..Len(ts) |-> ts[i].id],
              LAMBDA id : \E i \in 1..Len(ts) :
                             /\ ts[i].id = id
                             /\ ts[i].type = "EvolveAppTask"
                             /\ ts[i].mutations # <<>>)

ReadValue(op, ts, sig) ==
    CASE op = "can_simulate" -> CanSimulateValue(ts)
      [] op = "get_evolution_required" -> EvolutionRequiredValue(ts)
      [] op = "iter_evolution_content" -> EvolutionContentValue(ts)
      [] op = "diff_evolutions" -> sig
      [] OTHER -> [i \in 1..Len(ts) |-> ts[i].id]

\* An operation that prepares the tasks and reads them.
Read(op) ==
    LET r == PrepareTasks IN
    /\ pc = "idle"
    /\ tasks' = r.tasks
    /\ project_sig' = r.sig
    /\ tasks_prepared' = TRUE
    /\ last' = IF r.exc # NoException THEN Outcome(op, r.exc)
               ELSE Returned(op, ReadValue(op, r.tasks, r.sig))
    /\ UNCHANGED <<hinted, evolved>>
    /\ UNCHANGED <<envVars, dbVars, runVars>>

Tasks == Read("tasks")
CanSimulate == Read("can_simulate")
GetEvolutionRequired == Read("get_evolution_required")
DiffEvolutions == Read("diff_evolutions")
IterEvolutionContent == Read("iter_evolution_content")

\* ----------------------------------------------------------------- evolve

\* execute_sql: the statements run in order on the cursor.  fail_at names
\* the statement that raises (0: none does); the exception raised may or may
\* not carry a last_sql_statement attribute.
ExecuteSql(database, sql, fail_at, has_statement) ==
    IF fail_at = 0
    THEN [db |-> [database EXCEPT !.sql = @ \o sql], exc |-> NoException,
          has_statement |-> FALSE, statement |-> "none"]
    ELSE [db |-> [database EXCEPT !.sql = @ \o SubSeq(sql, 1, fail_at - 1)],
          exc |-> "DatabaseError",
          has_statement |-> has_statement, statement |-> sql[fail_at]]

\* The except clause of EvolveAppTask.execute and PurgeAppTask.execute:
\* getattr(e, 'last_sql_statement') is evaluated without a default.
WrapExecutionError(op, task, e) ==
    IF e.has_statement
    THEN [Outcome(op, "EvolutionExecutionError") EXCEPT
            !.app_label = task.app_label,
            !.detailed_error = e.exc,
            !.last_sql_statement = e.statement]
    ELSE Outcome(op, "AttributeError")

\* A signal sent by the execute of the task.
SignalSent(signal, task) ==
    [event |-> signal, task |-> task.id, statement |-> 0]

\* The statements of the task that execute_sql ran, the one that raised
\* being the last.
StatementsRun(task, fail_at) ==
    [i \in 1..(IF fail_at = 0 THEN Len(task.sql) ELSE fail_at) |->
        [event |-> IF i = fail_at THEN "raised" ELSE "ran",
         task |-> task.id, statement |-> i]]

\* TaskExecute, were applying_evolution sent next to applied_evolution,
\* once the SQL ran.
TaskExecute_SignalsAfterSql(task, database, sent, fail_at, has_statement) ==
    LET e == ExecuteSql(database, task.sql, fail_at, has_statement)
        signalling == task.type = "EvolveAppTask"
        applying == IF signalling
                    THEN Append(sent, <<"applying_evolution", task.id>>)
                    ELSE sent
        ran == StatementsRun(task, fail_at)
        sending == IF signalling
                   THEN <<SignalSent("applying_evolution", task)>>
                   ELSE <<>>
    IN  IF ~task.evolution_required
        THEN [db |-> database, signals |-> sent, events |-> <<>>,
              outcome |-> Outcome("evolve", NoException)]
        ELSE IF e.exc # NoException
        THEN [db |-> e.db, signals |-> applying,
              events |-> ran \o sending,
              outcome |-> WrapExecutionError("evolve", task, e)]
        ELSE [db |-> e.db,
              signals |-> IF signalling
                          THEN Append(applying,
                                      <<"applied_evolution", task.id>>)
                          ELSE applying,
              events |-> ran \o sending \o
                         IF signalling
                         THEN <<SignalSent("applied_evolution", task)>>
                         ELSE <<>>,
              outcome |-> Outcome("evolve", NoException)]

\* TaskExecute, without the test of evolution_required.
TaskExecute_Unconditional(task, database, sent, fail_at, has_statement) ==
    LET e == ExecuteSql(database, task.sql, fail_at, has_statement)
        signalling == task.type = "EvolveAppTask"
        applying == IF signalling
                    THEN Append(sent, <<"applying_evolution", task.id>>)
                    ELSE sent
        ran == StatementsRun(task, fail_at)
        sending == IF signalling
                   THEN <<SignalSent("applying_evolution", task)>>
                   ELSE <<>>
    IN  IF e.exc # NoException
        THEN [db |-> e.db, signals |-> applying,
              events |-> sending \o ran,
              outcome |-> WrapExecutionError("evolve", task, e)]
        ELSE [db |-> e.db,
              signals |-> IF signalling
                          THEN Append(applying,
                                      <<"applied_evolution", task.id>>)
                          ELSE applying,
              events |-> sending \o ran \o
                         IF signalling
                         THEN <<SignalSent("applied_evolution", task)>>
                         ELSE <<>>,
              outcome |-> Outcome("evolve", NoException)]

\* EvolveAppTask.execute and PurgeAppTask.execute: the database seen in the
\* transaction, the signals sent, the outcome, and the signals and
\* statements of this call in the order of the code.
TaskExecute(task, database, sent, fail_at, has_statement) ==
    LET e == ExecuteSql(database, task.sql, fail_at, has_statement)
        signalling == task.type = "EvolveAppTask"
        applying == IF signalling
                    THEN Append(sent, <<"applying_evolution", task.id>>)
                    ELSE sent
        ran == StatementsRun(task, fail_at)
        sending == IF signalling
                   THEN <<SignalSent("applying_evolution", task)>>
                   ELSE <<>>
    IN  IF ~task.evolution_required
        THEN [db |-> database, signals |-> sent, events |-> <<>>,
              outcome |-> Outcome("evolve", NoException)]
        ELSE IF e.exc # NoException
        THEN [db |-> e.db, signals |-> applying,
              events |-> sending \o ran,
              outcome |-> WrapExecutionError("evolve", task, e)]
        ELSE [db |-> e.db,
              signals |-> IF signalling
                          THEN Append(applying,
                                      <<"applied_evolution", task.id>>)
                          ELSE applying,
              events |-> sending \o ran \o
                         IF signalling
                         THEN <<SignalSent("applied_evolution", task)>>
                         ELSE <<>>,
              outcome |-> Outcome("evolve", NoException)]

\* Rollback, were the tasks executed outside the transaction.
Rollback_KeepsTransaction(committed, in_transaction) == in_transaction

\* Leaving transaction.atomic with an exception: the database is as it was
\* when the transaction was opened.
Rollback(committed, in_transaction) == committed

\* Leaving transaction.atomic without one.
Commit(committed, in_transaction) == in_transaction

\* EvolveAllowed, without the guard.
EvolveAllowed_Always == TRUE

\* Whether this evolve() call goes past its guard on the evolved flag.
EvolveAllowed == ~evolved

\* evolve() up to the opening of the transaction: the guard on evolved and
\* _prepare_tasks.
EvolveBegin ==
    LET r == PrepareTasks IN
    /\ pc = "idle"
    /\ call.n < MaxEvolveCalls
    /\ signals' = <<>>
    /\ IF ~EvolveAllowed
       THEN /\ last' = Outcome("evolve", "EvolutionException")
            /\ UNCHANGED <<tasks, tasks_prepared, project_sig, pc, cursor,
                           new_evolutions>>
       ELSE /\ tasks' = r.tasks
            /\ project_sig' = r.sig
            /\ tasks_prepared' = TRUE
            /\ IF r.exc # NoException
               THEN /\ last' = Outcome("evolve", r.exc)
                    /\ UNCHANGED <<pc, cursor, new_evolutions>>
               ELSE /\ last' = Outcome("evolve", "running")
                    /\ pc' = "executing"
                    /\ cursor' = 1
                    /\ new_evolutions' = <<>>
    /\ call' = CallHistory(call.n + 1, db, last')
    /\ UNCHANGED <<hinted, evolved>>
    /\ UNCHANGED <<envVars, dbVars>>

\* One turn of the loop over self.tasks inside the transaction.
ExecuteTask ==
    /\ pc = "executing"
    /\ cursor <= Len(tasks)
    /\ \E fail_at \in 0..Len(tasks[cursor].sql), has_statement \in BOOLEAN :
        LET task == tasks[cursor]
            r == TaskExecute(task, txn, signals, fail_at, has_statement)
        IN
        /\ fail_at = 0 => has_statement
        /\ tasks' = [tasks EXCEPT ![cursor].n_execute = @ + 1]
        /\ signals' = r.signals
        /\ IF r.outcome.exc = NoException
           THEN /\ txn' = r.db
                /\ UNCHANGED db
                /\ new_evolutions' = new_evolutions \o task.new_evolutions
                /\ cursor' = cursor + 1
                /\ call' = [call EXCEPT !.executed = Append(@, task.id),
                                        !.events = @ \o r.events]
                /\ UNCHANGED <<pc, last>>
           ELSE /\ db' = Rollback(db, r.db)
                /\ txn' = db'
                /\ pc' = "idle"
                /\ last' = r.outcome
                /\ call' = [call EXCEPT !.executed = Append(@, task.id),
                                        !.events = @ \o r.events,
                                        !.failed_at = cursor,
                                        !.outcome = r.outcome]
                /\ UNCHANGED <<cursor, new_evolutions>>
    /\ UNCHANGED <<hinted, tasks_prepared, evolved, project_sig>>
    /\ UNCHANGED envVars

\* SaveVersionResult, were the latest Version saved again with the evolved
\* signature rather than a new Version created.
SaveVersionResult_LatestSaved(database, sig, evolutions) ==
    LET version == Len(database.versions)
    IN  [database EXCEPT
            !.versions = [@ EXCEPT ![version] = sig],
            !.evolutions = @ \o [i \in 1..Len(evolutions) |->
                                    [app_label |-> evolutions[i].app_label,
                                     label |-> evolutions[i].label,
                                     version |-> version]]]

\* SaveVersionResult, were the entries tagged with the latest Version found
\* rather than with the one created.
SaveVersionResult_StaleTag(database, sig, evolutions) ==
    LET version == Len(database.versions)
    IN  [database EXCEPT
            !.versions = Append(@, sig),
            !.evolutions = @ \o [i \in 1..Len(evolutions) |->
                                    [app_label |-> evolutions[i].app_label,
                                     label |-> evolutions[i].label,
                                     version |-> version]]]

\* Version.objects.create(signature=self.project_sig), the tagging of the
\* new Evolution entries and Evolution.objects.bulk_create.
SaveVersionResult(database, sig, evolutions) ==
    LET version == Len(database.versions) + 1
    IN  [database EXCEPT
            !.versions = Append(@, sig),
            !.evolutions = @ \o [i \in 1..Len(evolutions) |->
                                    [app_label |-> evolutions[i].app_label,
                                     label |-> evolutions[i].label,
                                     version |-> version]]]

\* SaveVersionError, were the exception not wrapped.
SaveVersionError_Raw(failing) ==
    [Outcome("evolve", "DatabaseError") EXCEPT !.detailed_error = failing]

\* The except clause of the second try block of evolve().
SaveVersionError(failing) ==
    [Outcome("evolve", "EvolutionExecutionError")
        EXCEPT !.detailed_error = failing]

\* The second try block of evolve() and the end of the transaction.
SaveVersion ==
    /\ pc = "executing"
    /\ cursor > Len(tasks)
    /\ \E failing \in {"none", "Version.objects.create",
                        "Evolution.objects.bulk_create"} :
        IF failing = "none"
        THEN /\ db' = Commit(db, SaveVersionResult(txn, project_sig,
                                                   new_evolutions))
             /\ txn' = db'
             /\ pc' = "committed"
             /\ UNCHANGED <<last, call>>
        ELSE /\ db' = Rollback(db, txn)
             /\ txn' = db'
             /\ pc' = "idle"
             /\ last' = SaveVersionError(failing)
             /\ call' = [call EXCEPT !.save_failed = TRUE,
                                     !.outcome = last']
    /\ UNCHANGED <<cursor, new_evolutions, signals>>
    /\ UNCHANGED <<evolverVars, envVars>>

\* The last statement of evolve().
EvolveEnd ==
    /\ pc = "committed"
    /\ evolved' = TRUE
    /\ pc' = "idle"
    /\ last' = Outcome("evolve", NoException)
    /\ call' = [call EXCEPT !.outcome = last']
    /\ UNCHANGED <<hinted, tasks, tasks_prepared, project_sig>>
    /\ UNCHANGED <<cursor, new_evolutions, signals>>
    /\ UNCHANGED <<envVars, dbVars>>

\* ------------------------------------------------------------------- Spec

Next ==
    \/ QueueTask
    \/ QueueEvolveApp
    \/ QueuePurgeApp
    \/ Tasks
    \/ CanSimulate
    \/ GetEvolutionRequired
    \/ DiffEvolutions
    \/ IterEvolutionContent
    \/ EvolveBegin
    \/ ExecuteTask
    \/ SaveVersion
    \/ EvolveEnd

Spec == Init /\ [][Next]_vars

\* ------------------------------------------------- working on signatures

\* The mutations of the evolution that get_mutations loads for the
\* application.
StoredMutations(app) ==
    <<[Mutation(app, AllLabels[1], "AddField")
          EXCEPT !.model_name = "M"],
      [Mutation(app, AllLabels[1], "ChangeField")
          EXCEPT !.model_name = "N"],
      [Mutation(app, AllLabels[1], "RenameModel")
          EXCEPT !.model_name = "N"],
      Mutation(app, AllLabels[1], "SQLMutation")>>

\* The signatures at hand, before anything is computed from them.
SignatureInit ==
    /\ old_sig \in ProjectSignatures
    /\ new_sig \in ProjectSignatures
    /\ computed = NotComputed
    /\ EvolverInit
    /\ NothingCloned

\* new_sig.diff(old_sig).
Diff ==
    /\ computed' = [op |-> "diff",
                    value |-> ProjectSignatureDiff(new_sig, old_sig)]
    /\ UNCHANGED <<old_sig, new_sig, evolverFrame>>

\* new == old, old == new and new.has_unique_together_changed(old) on the
\* model M of app1.
CompareModels ==
    /\ "app1" \in Keys(old_sig.app_sigs, "app_id")
    /\ "app1" \in Keys(new_sig.app_sigs, "app_id")
    /\ LET old_app_sig == Lookup(old_sig.app_sigs, "app_id", "app1")
           app_sig == Lookup(new_sig.app_sigs, "app_id", "app1")
       IN  /\ "M" \in Keys(old_app_sig.model_sigs, "model_name")
           /\ "M" \in Keys(app_sig.model_sigs, "model_name")
           /\ LET old_model_sig ==
                      Lookup(old_app_sig.model_sigs, "model_name", "M")
                  model_sig ==
                      Lookup(app_sig.model_sigs, "model_name", "M")
              IN  computed' =
                      [op |-> "compare",
                       eq |-> ModelSignatureEq(model_sig, old_model_sig),
                       reverse_eq |->
                           ModelSignatureEq(old_model_sig, model_sig),
                       has_unique_together_changed |->
                           HasUniqueTogetherChanged(model_sig,
                                                    old_model_sig)]
    /\ UNCHANGED <<old_sig, new_sig, evolverFrame>>

\* ProjectSignature.deserialize(new_sig.serialize()).
SerializeRoundTrip ==
    /\ computed' =
          [op |-> "round_trip",
           value |-> ProjectSignatureDeserialize(
                         ProjectSignatureSerialize(
                             new_sig, DEFAULT_SIGNATURE_VERSION))]
    /\ UNCHANGED <<old_sig, new_sig, evolverFrame>>

\* get_mutations for app1, the latest Version holding old_sig and the
\* database giving new_sig.
LoadMutations ==
    /\ computed' =
          [op |-> "get_mutations",
           result |-> FilterMutations(StoredMutations("app1"), old_sig, new_sig,
                                      "app1")]
    /\ UNCHANGED <<old_sig, new_sig, evolverFrame>>

\* Diff.evolution() for one application: for every changed model, an
\* AddField for each added field, a DeleteField for each deleted one, a
\* ChangeField with the new values of the changed attributes for each
\* changed one and a ChangeMeta with the new value for each changed meta
\* property; then a DeleteModel for each deleted model.
DiffEvolution(diff, target_project_sig, app_id) ==
    IF "changed" \notin DOMAIN diff THEN <<>>
    ELSE IF app_id \notin DOMAIN diff["changed"] THEN <<>>
    ELSE
    LET app_diff == diff["changed"][app_id]
        app_sig == Lookup(target_project_sig.app_sigs, "app_id", app_id)
        changed_models ==
            IF "changed" \in DOMAIN app_diff
            THEN SelectSeq(Names(app_sig.model_sigs, "model_name"),
                           LAMBDA n : n \in DOMAIN app_diff["changed"])
            ELSE <<>>
        deleted_models ==
            IF "deleted" \in DOMAIN app_diff
            THEN app_diff["deleted"] ELSE <<>>
        branch(model_diff, key) ==
            IF key \in DOMAIN model_diff THEN model_diff[key] ELSE <<>>
        for_model(model_name) ==
            LET model_diff == app_diff["changed"][model_name]
                model_sig == Lookup(app_sig.model_sigs, "model_name",
                                    model_name)
                field(n) == Lookup(model_sig.field_sigs, "field_name", n)
                added == branch(model_diff, "added")
                deleted == branch(model_diff, "deleted")
                changed ==
                    IF "changed" \in DOMAIN model_diff
                    THEN SelectSeq(Names(model_sig.field_sigs, "field_name"),
                                   LAMBDA n :
                                       n \in DOMAIN model_diff["changed"])
                    ELSE <<>>
                meta_changed == branch(model_diff, "meta_changed")
            IN  [i \in 1..Len(added) |->
                    [kind |-> "AddField", model_name |-> model_name,
                     field_name |-> added[i],
                     field_type |-> field(added[i]).field_type,
                     field_attrs |-> field(added[i]).field_attrs]]
                \o [i \in 1..Len(deleted) |->
                    [kind |-> "DeleteField", model_name |-> model_name,
                     field_name |-> deleted[i]]]
                \o [i \in 1..Len(changed) |->
                    [kind |-> "ChangeField", model_name |-> model_name,
                     field_name |-> changed[i],
                     field_attrs |->
                        [attr \in model_diff["changed"][changed[i]] |->
                            GetAttrValue(field(changed[i]), attr)]]]
                \o [i \in 1..Len(meta_changed) |->
                    [kind |-> "ChangeMeta", model_name |-> model_name,
                     prop_name |-> meta_changed[i],
                     new_value |->
                        CASE meta_changed[i] = "unique_together" ->
                                model_sig.unique_together
                          [] meta_changed[i] = "index_together" ->
                                model_sig.index_together
                          [] OTHER -> model_sig.index_sigs]]
    IN  SeqConcat([i \in 1..Len(changed_models) |->
                       for_model(changed_models[i])])
        \o [i \in 1..Len(deleted_models) |->
               [kind |-> "DeleteModel", model_name |-> deleted_models[i]]]

\* simulate() of the mutation classes, called with a ProjectSignature.
\* SQLMutation without an update_func cannot be simulated and
\* DeleteApplication returns at once without a database; every other class
\* starts with proj_sig[app_label] inside try ... except KeyError, and
\* ProjectSignature has no __getitem__: the TypeError is not caught.
MutationSimulate(mutation, app_label, proj_sig, database) ==
    CASE mutation.kind = "SQLMutation" ->
            [sig |-> proj_sig, exc |-> "CannotSimulate"]
      [] mutation.kind = "DeleteApplication" /\ database = None ->
            [sig |-> proj_sig, exc |-> NoException]
      [] OTHER ->
            [sig |-> proj_sig, exc |-> "TypeError"]

\* The mutations simulated in order on the signature, up to the first
\* exception.
RECURSIVE SimulateAll(_, _, _, _)
SimulateAll(mutations, app_label, proj_sig, database) ==
    IF mutations = <<>> THEN [sig |-> proj_sig, exc |-> NoException]
    ELSE LET r == MutationSimulate(Head(mutations), app_label, proj_sig,
                                   database)
         IN  IF r.exc # NoException THEN r
             ELSE SimulateAll(Tail(mutations), app_label, r.sig, database)

\* The hint for new_sig.diff(old_sig) on app1, simulated on a clone of
\* old_sig.
SimulateHint ==
    /\ "app1" \in Keys(new_sig.app_sigs, "app_id")
    /\ LET evolution == DiffEvolution(ProjectSignatureDiff(new_sig, old_sig),
                                      new_sig, "app1")
       IN  computed' =
              [op |-> "simulate_hint",
               evolution |-> evolution,
               result |-> SimulateAll(evolution, "app1", old_sig,
                                      database_name)]
    /\ UNCHANGED <<old_sig, new_sig, evolverFrame>>

SignatureNext ==
    \/ Diff
    \/ CompareModels
    \/ SerializeRoundTrip
    \/ LoadMutations
    \/ SimulateHint

SignatureSpec == SignatureInit /\ [][SignatureNext]_vars

\* ----------------------------------------------------------------- clone()

\* Signature objects in memory.  The heap is the sequence of the objects
\* allocated, an object is referred to by its index; the lists and
\* dictionaries that a signature refers to are objects of their own, the
\* OrderedDict and the index list a signature creates for itself are kept
\* within it as the sequence of the entries' references.
Alloc(h, object) == [heap |-> Append(h, object), ref |-> Len(h) + 1]

RECURSIVE Clone(_, _), CloneAll(_, _)

\* FieldSignatureClone, were field_attrs handed over as it is.
FieldSignatureClone_SharedAttrs(h, ref) == Alloc(h, h[ref])

\* FieldSignature.clone: field_attrs is deep-copied.
FieldSignatureClone(h, ref) ==
    LET field_attrs == Alloc(h, h[h[ref].field_attrs])
    IN  Alloc(field_attrs.heap,
              [h[ref] EXCEPT !.field_attrs = field_attrs.ref])

\* IndexSignature.clone: fields=list(self.fields).
IndexSignatureClone(h, ref) ==
    LET fields == Alloc(h, h[h[ref].fields])
    IN  Alloc(fields.heap, [h[ref] EXCEPT !.fields = fields.ref])

\* ModelSignature.clone: the <field>_together lists are deep-copied and
\* normalized into new lists, every field and index signature is cloned.
ModelSignatureClone(h, ref) ==
    LET index_together == Alloc(h, h[h[ref].index_together])
        unique_together ==
            Alloc(index_together.heap, h[h[ref].unique_together])
        field_sigs == CloneAll(unique_together.heap, h[ref].field_sigs)
        index_sigs == CloneAll(field_sigs.heap, h[ref].index_sigs)
    IN  Alloc(index_sigs.heap,
              [h[ref] EXCEPT !.index_together = index_together.ref,
                             !.unique_together = unique_together.ref,
                             !.field_sigs = field_sigs.refs,
                             !.index_sigs = index_sigs.refs])

\* AppSignature.clone.
AppSignatureClone(h, ref) ==
    LET model_sigs == CloneAll(h, h[ref].model_sigs)
    IN  Alloc(model_sigs.heap,
              [h[ref] EXCEPT !.model_sigs = model_sigs.refs])

\* ProjectSignature.clone.
ProjectSignatureClone(h, ref) ==
    LET app_sigs == CloneAll(h, h[ref].app_sigs)
    IN  Alloc(app_sigs.heap, [h[ref] EXCEPT !.app_sigs = app_sigs.refs])

\* sig.clone(), by the class of the signature.
Clone(h, ref) ==
    CASE h[ref].class = "FieldSignature" -> FieldSignatureClone(h, ref)
      [] h[ref].class = "IndexSignature" -> IndexSignatureClone(h, ref)
      [] h[ref].class = "ModelSignature" -> ModelSignatureClone(h, ref)
      [] h[ref].class = "AppSignature" -> AppSignatureClone(h, ref)
      [] OTHER -> ProjectSignatureClone(h, ref)

\* The loops "for sig in self.<sigs>: cloned_sig.add_<sig>(sig.clone())".
CloneAll(h, refs) ==
    IF refs = <<>> THEN [heap |-> h, refs |-> <<>>]
    ELSE LET first == Clone(h, Head(refs))
             rest == CloneAll(first.heap, Tail(refs))
         IN  [heap |-> rest.heap, refs |-> <<first.ref>> \o rest.refs]

\* What a signature holds, the objects it refers to included.
RECURSIVE Contents(_, _)
Contents(h, ref) ==
    LET object == h[ref]
        all(refs) == [i \in 1..Len(refs) |-> Contents(h, refs[i])]
    IN  CASE object.class = "FieldSignature" ->
                [object EXCEPT !.field_attrs = h[@].items]
          [] object.class = "IndexSignature" ->
                [object EXCEPT !.fields = h[@].items]
          [] object.class = "ModelSignature" ->
                [object EXCEPT !.index_together = h[@].items,
                               !.unique_together = h[@].items,
                               !.field_sigs = all(@),
                               !.index_sigs = all(@)]
          [] object.class = "AppSignature" ->
                [object EXCEPT !.model_sigs = all(@)]
          [] OTHER -> [object EXCEPT !.app_sigs = all(@)]

\* The objects of a signature built in memory, the whole after its parts.
NewList(h, items) == Alloc(h, [class |-> "list", items |-> items])

NewField(h, field_name, attrs) ==
    LET field_attrs == Alloc(h, [class |-> "dict", items |-> attrs])
    IN  Alloc(field_attrs.heap,
              [class |-> "FieldSignature", field_name |-> field_name,
               field_type |-> "IntegerField",
               field_attrs |-> field_attrs.ref, related_model |-> None])

NewIndex(h, index_fields) ==
    LET fields == NewList(h, index_fields)
    IN  Alloc(fields.heap,
              [class |-> "IndexSignature", name |-> None,
               fields |-> fields.ref])

NewModel(h, model_name, together) ==
    LET index_together == NewList(h, together)
        unique_together == NewList(index_together.heap, together)
        field == NewField(unique_together.heap, "age", <<>>)
        index == NewIndex(field.heap, <<"age">>)
    IN  Alloc(index.heap,
              [class |-> "ModelSignature", model_name |-> model_name,
               table_name |-> model_name, db_tablespace |-> None,
               pk_column |-> "id",
               index_together |-> index_together.ref,
               unique_together |-> unique_together.ref,
               field_sigs |-> <<field.ref>>,
               index_sigs |-> <<index.ref>>,
               unique_together_applied |-> TRUE])

NewApp(h, app_id, together) ==
    LET model == NewModel(h, "M", together)
    IN  Alloc(model.heap,
              [class |-> "AppSignature", app_id |-> app_id,
               model_sigs |-> <<model.ref>>])

NewProject(h, together) ==
    LET app == NewApp(h, "app1", together)
    IN  Alloc(app.heap,
              [class |-> "ProjectSignature", app_sigs |-> <<app.ref>>])

\* The changes made to a signature through its methods and attributes.
Changes ==
    {"add_app_sig", "remove_app_sig", "add_model_sig", "remove_model_sig",
     "add_field_sig", "remove_field_sig", "set_field_attr",
     "append_unique_together", "append_index_together", "add_index_sig",
     "append_index_field"}

\* The signature a change is made to, found from the project signature:
\* the project, its first application, that one's first model, and the
\* first field and index of the model.  0 when there is none.
Target(h, root, change) ==
    LET first(refs) == IF refs = <<>> THEN 0 ELSE refs[1]
        app == first(h[root].app_sigs)
        model == IF app = 0 THEN 0 ELSE first(h[app].model_sigs)
        field == IF model = 0 THEN 0 ELSE first(h[model].field_sigs)
        index == IF model = 0 THEN 0 ELSE first(h[model].index_sigs)
    IN  CASE change \in {"add_app_sig", "remove_app_sig"} ->
                IF change = "remove_app_sig" /\ app = 0 THEN 0 ELSE root
          [] change \in {"add_model_sig", "remove_model_sig"} ->
                IF change = "remove_model_sig" /\ model = 0 THEN 0 ELSE app
          [] change = "remove_field_sig" ->
                IF field = 0 THEN 0 ELSE model
          [] change = "set_field_attr" -> field
          [] change = "append_index_field" -> index
          [] OTHER -> model

\* The heap after the change is made to the target.
Change(h, target, change) ==
    LET object == h[target]
        app == NewApp(h, "app2", <<>>)
        model == NewModel(h, "N", <<>>)
        field == NewField(h, "nickname", [null |-> "True"])
        index == NewIndex(h, <<"age">>)
        into(list) ==
            [h EXCEPT ![list].items = Append(@, <<"age">>)]
    IN  CASE change = "add_app_sig" ->
                [app.heap EXCEPT ![target].app_sigs = Append(@, app.ref)]
          [] change = "remove_app_sig" ->
                [h EXCEPT ![target].app_sigs = Tail(@)]
          [] change = "add_model_sig" ->
                [model.heap EXCEPT
                    ![target].model_sigs = Append(@, model.ref)]
          [] change = "remove_model_sig" ->
                [h EXCEPT ![target].model_sigs = Tail(@)]
          [] change = "add_field_sig" ->
                [field.heap EXCEPT
                    ![target].field_sigs = Append(@, field.ref)]
          [] change = "remove_field_sig" ->
                [h EXCEPT ![target].field_sigs = Tail(@)]
          [] change = "set_field_attr" ->
                [h EXCEPT ![object.field_attrs].items =
                    Update(@, [null |-> IF "null" \in DOMAIN @
                                        THEN "False" ELSE "True"])]
          [] change = "append_unique_together" ->
                into(object.unique_together)
          [] change = "append_index_together" ->
                into(object.index_together)
          [] change = "add_index_sig" ->
                [index.heap EXCEPT
                    ![target].index_sigs = Append(@, index.ref)]
          [] OTHER ->
                [h EXCEPT ![object.fields].items = Append(@, "age")]

\* A project signature in memory, not cloned yet.
CloneInit ==
    /\ \E together \in {<<>>, << <<"age">> >>} :
          LET project == NewProject(<<>>, together) IN
          /\ heap = project.heap
          /\ original = project.ref
    /\ cloned = 0
    /\ touched = "none"
    /\ n_changes = 0
    /\ NothingSimulated
    /\ EvolverInit
    /\ old_sig = BaselineProjectSig
    /\ new_sig = DatabaseProjectSig
    /\ computed = NotComputed

\* cloned = original.clone()
CloneSignature ==
    /\ cloned = 0
    /\ LET r == Clone(heap, original) IN
       /\ heap' = r.heap
       /\ cloned' = r.ref
    /\ touched' = "none"
    /\ UNCHANGED <<original, n_changes, cloneFrame>>

\* A change made to the original or to the clone.
ChangeSignature ==
    /\ n_changes < MaxChanges
    /\ \E side \in {"original", "cloned"}, change \in Changes :
          LET root == IF side = "original" THEN original ELSE cloned
              target == IF root = 0 THEN 0 ELSE Target(heap, root, change)
          IN  /\ target # 0
              /\ heap' = Change(heap, target, change)
              /\ touched' = side
    /\ n_changes' = n_changes + 1
    /\ UNCHANGED <<original, cloned, cloneFrame>>

CloneNext ==
    \/ CloneSignature
    \/ ChangeSignature

CloneSpec == CloneInit /\ [][CloneNext]_vars

\* ---------------------------------------------------------------- simulate
\*
\* The simulate() methods of the model mutations index the project signature
\* as nested dictionaries: proj_sig[app_label][model_name]['fields'][name]
\* and proj_sig[app_label][model_name]['meta'][prop].  They are modelled on
\* that dictionary form, the one ProjectSignature.serialize() gives.
\* Dictionaries are sequences of key/value entries in insertion order, a
\* field's dictionary and 'meta' are functions of their keys.

\* key in d, d[key], d[key] = value, del d[key] and f.pop(attr, None).
HasItem(d, key) == key \in Keys(d, "key")

Item(d, key) == Lookup(d, "key", key).value

SetItem(d, key, value) == Store(d, "key", [key |-> key, value |-> value])

DelItem(d, key) == SelectSeq(d, LAMBDA e : e.key # key)

Pop(f, attr) == [a \in DOMAIN f \ {attr} |-> f[a]]

\* "not value" on an attribute value.
Not(value) == value \in {None, "False", "", "0"}

\* proj_sig[app_label][model_name] after the model's dictionary was changed
\* in place.
WithModelSig(proj_sig, app_label, model_name, model_sig) ==
    SetItem(proj_sig, app_label,
            SetItem(Item(proj_sig, app_label), model_name, model_sig))

\* What a simulate() call leaves: the signature, and the exception raised.
Simulated(proj_sig, exc) == [proj_sig |-> proj_sig, exc |-> exc]

\* The lookups every simulate() starts with: the exception of a missing
\* application or model.
LookupFailure(proj_sig, app_label, model_name) ==
    IF ~HasItem(proj_sig, app_label) THEN "SimulationFailure"
    ELSE IF ~HasItem(Item(proj_sig, app_label), model_name)
    THEN "SimulationFailure"
    ELSE NoException

\* DeleteField.simulate, were a missing application, model or field passed
\* over in silence.
DeleteFieldSimulate_Silent(self, app_label, proj_sig, database) ==
    Simulated(proj_sig, NoException)

\* DeleteField.simulate, were the primary key deleted like any field.
DeleteFieldSimulate_AnyField(self, app_label, proj_sig, database) ==
    IF \/ LookupFailure(proj_sig, app_label, self.model_name) # NoException
       \/ ~HasItem(Item(Item(proj_sig, app_label), self.model_name).fields,
                   self.field_name)
    THEN Simulated(proj_sig, "SimulationFailure")
    ELSE LET model_sig == Item(Item(proj_sig, app_label), self.model_name)
         IN  Simulated(
                 WithModelSig(
                     proj_sig, app_label, self.model_name,
                     [model_sig EXCEPT
                         !.fields = DelItem(@, self.field_name)]),
                 NoException)

\* DeleteField.simulate, were unique_together left as it was.
DeleteFieldSimulate_KeepsTogether(self, app_label, proj_sig, database) ==
    IF \/ LookupFailure(proj_sig, app_label, self.model_name) # NoException
       \/ ~HasItem(Item(Item(proj_sig, app_label), self.model_name).fields,
                   self.field_name)
    THEN Simulated(proj_sig, "SimulationFailure")
    ELSE
    LET model_sig == Item(Item(proj_sig, app_label), self.model_name)
        field == Item(model_sig.fields, self.field_name)
    IN  IF "primary_key" \in DOMAIN field /\ ~Not(field.primary_key)
        THEN Simulated(proj_sig, "SimulationFailure")
        ELSE Simulated(
                WithModelSig(
                    proj_sig, app_label, self.model_name,
                    [model_sig EXCEPT
                        !.fields = DelItem(@, self.field_name)]),
                NoException)

\* DeleteField.simulate.
DeleteFieldSimulate(self, app_label, proj_sig, database) ==
    IF LookupFailure(proj_sig, app_label, self.model_name) # NoException
    THEN Simulated(proj_sig, "SimulationFailure")
    ELSE
    LET model_sig == Item(Item(proj_sig, app_label), self.model_name)
        fields_sig == model_sig.fields
    IN  IF ~HasItem(fields_sig, self.field_name)
        THEN Simulated(proj_sig, "SimulationFailure")
        ELSE
        LET field == Item(fields_sig, self.field_name)
            unique_together == model_sig.meta.unique_together
            unique_together_list ==
                [ut_index \in 1..Len(unique_together) |->
                    SelectSeq(unique_together[ut_index],
                              LAMBDA field_name :
                                  ~(field_name = self.field_name))]
        IN  IF "primary_key" \in DOMAIN field /\ ~Not(field.primary_key)
            THEN Simulated(proj_sig, "SimulationFailure")
            ELSE Simulated(
                    WithModelSig(
                        proj_sig, app_label, self.model_name,
                        [meta |-> [model_sig.meta EXCEPT
                                      !.unique_together =
                                          unique_together_list],
                         fields |-> DelItem(fields_sig, self.field_name)]),
                    NoException)

\* AddField.simulate, were an initial value of 0 taken for a missing one.
AddFieldSimulate_InitialTruthy(self, app_label, proj_sig, database) ==
    IF LookupFailure(proj_sig, app_label, self.model_name) # NoException
    THEN Simulated(proj_sig, "SimulationFailure")
    ELSE
    LET model_sig == Item(Item(proj_sig, app_label), self.model_name)
        null == IF "null" \in DOMAIN self.field_attrs
                THEN self.field_attrs.null
                ELSE GlobalAttributeDefaults.null
    IN  IF \/ HasItem(model_sig.fields, self.field_name)
           \/ /\ self.field_type # "ManyToManyField"
              /\ Not(null)
              /\ Not(self.initial)
        THEN Simulated(proj_sig, "SimulationFailure")
        ELSE Simulated(
                WithModelSig(
                    proj_sig, app_label, self.model_name,
                    [model_sig EXCEPT
                        !.fields =
                            SetItem(@, self.field_name,
                                    Update([field_type |-> self.field_type],
                                           self.field_attrs))]),
                NoException)

\* AddField.simulate; ATTRIBUTE_DEFAULTS['null'] is False.
AddFieldSimulate(self, app_label, proj_sig, database) ==
    IF LookupFailure(proj_sig, app_label, self.model_name) # NoException
    THEN Simulated(proj_sig, "SimulationFailure")
    ELSE
    LET model_sig == Item(Item(proj_sig, app_label), self.model_name)
        null == IF "null" \in DOMAIN self.field_attrs
                THEN self.field_attrs.null
                ELSE GlobalAttributeDefaults.null
    IN  IF HasItem(model_sig.fields, self.field_name)
        THEN Simulated(proj_sig, "SimulationFailure")
        ELSE IF /\ self.field_type # "ManyToManyField"
                /\ Not(null)
                /\ self.initial = None
        THEN Simulated(proj_sig, "SimulationFailure")
        ELSE Simulated(
                WithModelSig(
                    proj_sig, app_label, self.model_name,
                    [model_sig EXCEPT
                        !.fields =
                            SetItem(@, self.field_name,
                                    Update([field_type |-> self.field_type],
                                           self.field_attrs))]),
                NoException)

\* RenameField.simulate, were the field stored under the new name and left
\* under the old one.
RenameFieldSimulate_KeepsOld(self, app_label, proj_sig, database) ==
    IF \/ LookupFailure(proj_sig, app_label, self.model_name) # NoException
       \/ ~HasItem(Item(Item(proj_sig, app_label), self.model_name).fields,
                   self.old_field_name)
    THEN Simulated(proj_sig, "SimulationFailure")
    ELSE LET model_sig == Item(Item(proj_sig, app_label), self.model_name)
         IN  Simulated(
                 WithModelSig(
                     proj_sig, app_label, self.model_name,
                     [model_sig EXCEPT
                         !.fields =
                             SetItem(@, self.new_field_name,
                                     Pop(Item(@, self.old_field_name),
                                         "db_column"))]),
                 NoException)

\* RenameField.simulate.
RenameFieldSimulate(self, app_label, proj_sig, database) ==
    IF LookupFailure(proj_sig, app_label, self.model_name) # NoException
    THEN Simulated(proj_sig, "SimulationFailure")
    ELSE
    LET model_sig == Item(Item(proj_sig, app_label), self.model_name)
        field_dict == model_sig.fields
    IN  IF ~HasItem(field_dict, self.old_field_name)
        THEN Simulated(proj_sig, "SimulationFailure")
        ELSE
        LET field_sig == Item(field_dict, self.old_field_name)
            renamed ==
                IF field_sig.field_type = "ManyToManyField"
                THEN IF ~Not(self.db_table)
                     THEN Update(field_sig, [db_table |-> self.db_table])
                     ELSE Pop(field_sig, "db_table")
                ELSE IF ~Not(self.db_column)
                THEN Update(field_sig, [db_column |-> self.db_column])
                ELSE Pop(field_sig, "db_column")
        IN  Simulated(
                WithModelSig(
                    proj_sig, app_label, self.model_name,
                    [model_sig EXCEPT
                        !.fields =
                            SetItem(DelItem(@, self.old_field_name),
                                    self.new_field_name, renamed)]),
                NoException)

\* ChangeField.simulate, were the field's dictionary replaced by the
\* attributes given.
ChangeFieldSimulate_Replaces(self, app_label, proj_sig, database) ==
    IF \/ LookupFailure(proj_sig, app_label, self.model_name) # NoException
       \/ ~HasItem(Item(Item(proj_sig, app_label), self.model_name).fields,
                   self.field_name)
    THEN Simulated(proj_sig, "SimulationFailure")
    ELSE
    LET model_sig == Item(Item(proj_sig, app_label), self.model_name)
        field_type == Item(model_sig.fields, self.field_name).field_type
        replaced ==
            WithModelSig(
                proj_sig, app_label, self.model_name,
                [model_sig EXCEPT
                    !.fields =
                        SetItem(@, self.field_name,
                                Update([field_type |-> field_type],
                                       self.field_attrs))])
    IN  IF /\ "null" \in DOMAIN self.field_attrs
           /\ field_type # "ManyToManyField"
           /\ Not(self.field_attrs.null)
           /\ self.initial = None
        THEN Simulated(replaced, "SimulationFailure")
        ELSE Simulated(replaced, NoException)

\* ChangeField.simulate: the attributes are merged before the check of
\* 'null' is made.
ChangeFieldSimulate(self, app_label, proj_sig, database) ==
    IF LookupFailure(proj_sig, app_label, self.model_name) # NoException
    THEN Simulated(proj_sig, "SimulationFailure")
    ELSE
    LET model_sig == Item(Item(proj_sig, app_label), self.model_name)
    IN  IF ~HasItem(model_sig.fields, self.field_name)
        THEN Simulated(proj_sig, "SimulationFailure")
        ELSE
        LET field_sig ==
                Update(Item(model_sig.fields, self.field_name),
                       self.field_attrs)
            merged ==
                WithModelSig(
                    proj_sig, app_label, self.model_name,
                    [model_sig EXCEPT
                        !.fields = SetItem(@, self.field_name, field_sig)])
        IN  IF /\ "null" \in DOMAIN self.field_attrs
               /\ field_sig.field_type # "ManyToManyField"
               /\ Not(self.field_attrs.null)
               /\ self.initial = None
            THEN Simulated(merged, "SimulationFailure")
            ELSE Simulated(merged, NoException)

\* RenameModel.simulate.
RenameModelSimulate(self, app_label, proj_sig, database) ==
    IF LookupFailure(proj_sig, app_label, self.old_model_name) # NoException
    THEN Simulated(proj_sig, "SimulationFailure")
    ELSE
    LET app_sig == Item(proj_sig, app_label)
        model_sig == Item(app_sig, self.old_model_name)
        meta == IF ~Not(self.db_table)
                THEN Update(model_sig.meta, [db_table |-> self.db_table])
                ELSE Pop(model_sig.meta, "db_table")
        moved ==
            SetItem(proj_sig, app_label,
                    SetItem(DelItem(app_sig, self.old_model_name),
                            self.new_model_name,
                            [model_sig EXCEPT !.meta = meta]))
        old_related_model == app_label \o "." \o self.old_model_name
        new_related_model == app_label \o "." \o self.new_model_name
        related(field) ==
            IF /\ "related_model" \in DOMAIN field
               /\ field.related_model = old_related_model
            THEN [field EXCEPT !.related_model = new_related_model]
            ELSE field
        fields(model) ==
            [model EXCEPT
                !.fields = [i \in 1..Len(@) |->
                               [@[i] EXCEPT !.value = related(@)]]]
        models(app) ==
            [i \in 1..Len(app) |-> [app[i] EXCEPT !.value = fields(@)]]
    IN  Simulated(
            [i \in 1..Len(moved) |->
                \* "if not isinstance(app_sig, dict): continue"
                IF moved[i].key = "__version__" THEN moved[i]
                ELSE [moved[i] EXCEPT !.value = models(@)]],
            NoException)

\* DeleteModel.simulate.
DeleteModelSimulate(self, app_label, proj_sig, database) ==
    IF LookupFailure(proj_sig, app_label, self.model_name) # NoException
    THEN Simulated(proj_sig, "SimulationFailure")
    ELSE Simulated(
            SetItem(proj_sig, app_label,
                    DelItem(Item(proj_sig, app_label), self.model_name)),
            NoException)

\* DeleteApplication.simulate.  app_sig.keys() is a list of the keys (the
\* package is declared for Python 2), so that the models are deleted while
\* the list is walked.
DeleteApplicationSimulate(self, app_label, proj_sig, database) ==
    IF Not(database) THEN Simulated(proj_sig, NoException)
    ELSE IF ~HasItem(proj_sig, app_label)
    THEN Simulated(proj_sig, "SimulationFailure")
    ELSE
    LET app_sig == Item(proj_sig, app_label)
    IN  Simulated(
            SetItem(proj_sig, app_label,
                    SelectSeq(app_sig,
                              LAMBDA e :
                                  ~IsMutable(Mutation(app_label, "none",
                                                      "model"),
                                             database))),
            NoException)

\* The properties and attributes the database backend's evolver supports
\* changing (supported_change_meta, supported_change_attrs).
supported_change_meta == {"indexes", "index_together", "unique_together"}

supported_change_attrs ==
    {"null", "max_length", "unique", "db_column", "db_index", "db_table"}

\* record_unique_together_applied.
RecordUniqueTogetherApplied_NotRecorded(model_sig) == model_sig

RecordUniqueTogetherApplied(model_sig) ==
    [model_sig EXCEPT
        !.meta = Update(@, [unique_together_applied |-> TRUE])]

\* The function has_unique_together_changed of two model dictionaries.
has_unique_together_changed(old_model_sig, new_model_sig) ==
    LET old_meta == old_model_sig.meta
        new_meta == new_model_sig.meta
        old_unique_together == old_meta.unique_together
        new_unique_together == new_meta.unique_together
    IN  \/ old_unique_together # new_unique_together
        \/ /\ old_unique_together # <<>> \/ new_unique_together # <<>>
           /\ ~(/\ "unique_together_applied" \in DOMAIN old_meta
                /\ old_meta.unique_together_applied)

\* ChangeMeta.simulate.
ChangeMetaSimulate(self, app_label, proj_sig, database) ==
    IF LookupFailure(proj_sig, app_label, self.model_name) # NoException
    THEN Simulated(proj_sig, "SimulationFailure")
    ELSE
    LET model_sig == Item(Item(proj_sig, app_label), self.model_name)
        changed ==
            [model_sig EXCEPT
                !.meta = Update(@, [p \in {self.prop_name} |->
                                       self.new_value])]
    IN  IF self.prop_name \notin supported_change_meta
        THEN Simulated(proj_sig, "SimulationFailure")
        ELSE Simulated(
                WithModelSig(
                    proj_sig, app_label, self.model_name,
                    IF self.prop_name = "unique_together"
                    THEN RecordUniqueTogetherApplied(changed)
                    ELSE changed),
                NoException)

\* ChangeField.mutate: what is raised, and the operations the mutator is
\* left with.
ChangeFieldMutate_Ignoring(self, field_sig, ops) ==
    [ops |-> ops, exc |-> NoException]

\* ChangeField.mutate, were every attribute given scheduled, changed or
\* not.
ChangeFieldMutate_AllAttrs(self, field_sig, ops) ==
    IF \E attr_name \in DOMAIN self.field_attrs :
          attr_name \notin supported_change_attrs
    THEN [ops |-> ops, exc |-> "EvolutionNotImplementedError"]
    ELSE [ops |-> Append(ops,
                         [op |-> "change_column",
                          field_name |-> self.field_name,
                          new_attrs |-> DOMAIN self.field_attrs]),
          exc |-> NoException]

\* ChangeField.mutate.
ChangeFieldMutate(self, field_sig, ops) ==
    IF \E attr_name \in DOMAIN self.field_attrs :
          attr_name \notin supported_change_attrs
    THEN [ops |-> ops, exc |-> "EvolutionNotImplementedError"]
    ELSE
    LET old_attr_value(attr_name) ==
            IF attr_name \in DOMAIN field_sig THEN field_sig[attr_name]
            ELSE GlobalAttributeDefaults[attr_name]
        new_field_attrs ==
            {attr_name \in DOMAIN self.field_attrs :
                old_attr_value(attr_name) # self.field_attrs[attr_name]}
    IN  [ops |->
            IF new_field_attrs # {}
            THEN Append(ops,
                        [op |-> "change_column",
                         field_name |-> self.field_name,
                         new_attrs |-> new_field_attrs])
            ELSE ops,
         exc |-> NoException]

\* ------------------------------------------------- simulating on signatures

\* The fields of the models whose dictionaries are mutated.
IdField == FieldSignature("id", "AutoField", [primary_key |-> "True"], None)
FriendsField == FieldSignature("friends", "ManyToManyField", <<>>, "app1.N")
PeerField == FieldSignature("peer", "ForeignKey", <<>>, "app2.N")

\* The project signatures whose dictionaries are mutated: app1 with the
\* models M (with unique_together and index_together) and N, next to app2;
\* app1 with M (without them) and N; app1 with N only; a project without
\* app1; an empty project.
MutatedProjects ==
    LET M(together, applied) ==
            Model("M", <<IdField, AgeField, NicknameField, OwnerField,
                         FriendsField>>,
                  together, applied, together, <<>>)
        N == Model("N", <<IdField, AgeField>>, <<>>, TRUE, <<>>, <<>>)
        app2 == AppSignature("app2",
                             <<Model("N", <<IdField, OwnerField, PeerField>>,
                                     <<>>, TRUE, <<>>, <<>>)>>)
        app1(m) == AppSignature("app1", m \o <<N>>)
    IN  {ProjectSignature(
            <<app1(<<M(<< <<"age", "nickname">> >>, FALSE)>>), app2>>),
         ProjectSignature(<<app1(<<M(<<>>, TRUE)>>)>>),
         ProjectSignature(<<app1(<<>>)>>),
         ProjectSignature(<<app2>>),
         ProjectSignature(<<>>)}

\* The models named by the mutations, the databases and the attributes
\* given to them.
ModelTargets == {<<"app1", "M">>, <<"app1", "N">>, <<"app2", "N">>}
FieldTargets == {<<"app1", "M">>}
Databases == {None, "default"}
FieldAttrs ==
    {<< <<"null", "True">> >>, << <<"null", "False">> >>,
     << <<"max_length", "20">> >>, << <<"decimal_places", "2">> >>}

\* **field_attrs.
Kwargs(pairs) ==
    [attr \in {pairs[i][1] : i \in 1..Len(pairs)} |->
        (CHOOSE p \in Range(pairs) : p[1] = attr)[2]]

\* The update_func given to the SQLMutations that have one: it adds the
\* model S, which the SQL creates, to the application of the signature it
\* is called with.
UpdateFunc(app_label, proj_sig) ==
    SetItem(proj_sig, app_label,
            SetItem(IF HasItem(proj_sig, app_label)
                    THEN Item(proj_sig, app_label) ELSE <<>>,
                    "S",
                    ModelSignatureSerialize(
                        Model("S", <<IdField>>, <<>>, TRUE, <<>>, <<>>))))

\* callable(self.update_func): None and a string are not callable.
Callable(update_func) == update_func = "update_func"

\* SQLMutation.simulate, were the update_func never called.
SQLMutationSimulate_NeverCalled(self, app_label, proj_sig, database) ==
    Simulated(proj_sig, "CannotSimulate")

\* SQLMutation.simulate.
SQLMutationSimulate(self, app_label, proj_sig, database) ==
    IF Callable(self.update_func)
    THEN Simulated(UpdateFunc(app_label, proj_sig), NoException)
    ELSE Simulated(proj_sig, "CannotSimulate")

\* MonoBaseMutation.is_mutable, for the database that
\* get_database_for_model_name gives for the model.
MonoBaseMutationIsMutable(database, model_database) ==
    LET db_name == IF ~Not(database) THEN database ELSE model_database
    IN  ~Not(db_name) /\ db_name = database

\* The dictionary signature of a project, before any mutation.
MutationInit ==
    /\ \E project \in MutatedProjects :
          proj_sig_dict =
              ProjectSignatureSerialize(project, DEFAULT_SIGNATURE_VERSION)
    /\ simulated = [op |-> "none"]
    /\ mutator_ops = <<>>
    /\ n_simulated = 0
    /\ heap = <<>>
    /\ original = 0
    /\ cloned = 0
    /\ touched = "none"
    /\ n_changes = 0
    /\ EvolverInit
    /\ old_sig = BaselineProjectSig
    /\ new_sig = DatabaseProjectSig
    /\ computed = NotComputed

\* mutation.simulate(app_label, proj_sig, database_sig, database) on the
\* dictionary signature, which is changed in place.
SimulateMutation(mutation, app_label, database, result) ==
    /\ n_simulated < MaxSimulations
    /\ proj_sig_dict' = result.proj_sig
    /\ simulated' =
          [op |-> "simulate", mutation |-> mutation,
           app_label |-> app_label, database |-> database,
           before |-> proj_sig_dict, exc |-> result.exc,
           ops_before |-> mutator_ops]
    /\ n_simulated' = n_simulated + 1
    /\ UNCHANGED <<mutator_ops, mutationFrame>>

\* mutation.mutate(mutator, model) of a ChangeField, on a model mutator for
\* the model of the dictionary signature.
MutateModel(mutation, app_label, result) ==
    /\ n_simulated < MaxSimulations
    /\ mutator_ops' = result.ops
    /\ simulated' =
          [op |-> "mutate", mutation |-> mutation,
           app_label |-> app_label, database |-> None,
           before |-> proj_sig_dict, exc |-> result.exc,
           ops_before |-> mutator_ops]
    /\ n_simulated' = n_simulated + 1
    /\ UNCHANGED <<proj_sig_dict, mutationFrame>>

MutationNext ==
    \/ \E target \in FieldTargets, field_name \in {"id", "age", "zip"},
          database \in Databases :
          LET self == [class |-> "DeleteField", model_name |-> target[2],
                       field_name |-> field_name]
          IN  SimulateMutation(self, target[1], database,
                       DeleteFieldSimulate(self, target[1], proj_sig_dict,
                                           database))
    \/ \E target \in FieldTargets, field_name \in {"age", "zip"},
          field_type \in {"IntegerField", "ManyToManyField"},
          initial \in {None, "0"},
          attrs \in {<<>>, << <<"null", "True">> >>,
                     << <<"null", "False">> >>} :
          LET self == [class |-> "AddField", model_name |-> target[2],
                       field_name |-> field_name,
                       field_type |-> field_type, initial |-> initial,
                       field_attrs |-> Kwargs(attrs)]
          IN  SimulateMutation(self, target[1], None,
                       AddFieldSimulate(self, target[1], proj_sig_dict,
                                        None))
    \/ \E target \in FieldTargets,
          old_field_name \in {"age", "friends", "zip"},
          new_field_name \in {"years"},
          names \in {<<None, None>>, <<"col", None>>, <<None, "tbl">>} :
          LET self == [class |-> "RenameField", model_name |-> target[2],
                       old_field_name |-> old_field_name,
                       new_field_name |-> new_field_name,
                       db_column |-> names[1], db_table |-> names[2]]
          IN  SimulateMutation(self, target[1], None,
                       RenameFieldSimulate(self, target[1], proj_sig_dict,
                                           None))
    \/ \E target \in FieldTargets, field_name \in {"age", "friends", "zip"},
          initial \in {None, "0"},
          attrs \in FieldAttrs \ {<< <<"decimal_places", "2">> >>} :
          LET self == [class |-> "ChangeField", model_name |-> target[2],
                       field_name |-> field_name, initial |-> initial,
                       field_attrs |-> Kwargs(attrs)]
          IN  SimulateMutation(self, target[1], None,
                       ChangeFieldSimulate(self, target[1], proj_sig_dict,
                                           None))
    \/ \E target \in FieldTargets, field_name \in {"age"},
          attrs \in FieldAttrs \ {<< <<"null", "True">> >>} :
          LET self == [class |-> "ChangeField", model_name |-> target[2],
                       field_name |-> field_name, initial |-> "0",
                       field_attrs |-> Kwargs(attrs)]
          IN  /\ LookupFailure(proj_sig_dict, target[1], target[2])
                    = NoException
              /\ HasItem(Item(Item(proj_sig_dict, target[1]),
                              target[2]).fields, field_name)
              /\ MutateModel(self, target[1],
                        ChangeFieldMutate(
                            self,
                            Item(Item(Item(proj_sig_dict, target[1]),
                                      target[2]).fields, field_name),
                            mutator_ops))
    \/ \E target \in ModelTargets, new_model_name \in {"R", "N"},
          db_table \in {None, "tbl"} :
          LET self == [class |-> "RenameModel",
                       old_model_name |-> target[2],
                       new_model_name |-> new_model_name,
                       db_table |-> db_table]
          IN  SimulateMutation(self, target[1], None,
                       RenameModelSimulate(self, target[1], proj_sig_dict,
                                           None))
    \/ \E target \in ModelTargets :
          LET self == [class |-> "DeleteModel", model_name |-> target[2]]
          IN  SimulateMutation(self, target[1], None,
                       DeleteModelSimulate(self, target[1], proj_sig_dict,
                                           None))
    \/ \E target \in FieldTargets, database \in {None, "default", "other"},
          model_database \in {"default", "other"} :
          \* mutation.is_mutable(app_label, proj_sig, database_sig, database)
          /\ n_simulated < MaxSimulations
          /\ simulated' =
                [op |-> "is_mutable",
                 mutation |-> [class |-> "DeleteModel",
                               model_name |-> target[2]],
                 app_label |-> target[1], database |-> database,
                 model_database |-> model_database,
                 ret |-> MonoBaseMutationIsMutable(database,
                                                   model_database)]
          /\ n_simulated' = n_simulated + 1
          /\ UNCHANGED <<proj_sig_dict, mutator_ops, mutationFrame>>
    \/ \E update_func \in {None, "update_func", "not callable"} :
          LET self == [class |-> "SQLMutation", tag |-> "tag",
                       sql |-> "sql", update_func |-> update_func]
          IN  SimulateMutation(self, "app1", None,
                       SQLMutationSimulate(self, "app1", proj_sig_dict,
                                           None))
    \/ \E app_label \in {"app1", "app2"}, database \in Databases :
          LET self == [class |-> "DeleteApplication"]
          IN  SimulateMutation(self, app_label, database,
                       DeleteApplicationSimulate(self, app_label,
                                                 proj_sig_dict, database))
    \/ \E target \in FieldTargets,
          prop_name \in {"unique_together", "index_together", "db_table"},
          pairs \in {<<>>, << <<"age", "nickname">> >>} :
          LET self == [class |-> "ChangeMeta", model_name |-> target[2],
                       prop_name |-> prop_name, new_value |-> pairs]
          IN  SimulateMutation(self, target[1], "default",
                       ChangeMetaSimulate(self, target[1], proj_sig_dict,
                                          "default"))

MutationSpec == MutationInit /\ [][MutationNext]_vars

\* ----------------------------------------------------------------- claims

QueueOps == {"queue_task", "queue_evolve_app", "queue_purge_app"}

\* The tasks the running or last evolve() call executed without failure.
Succeeded ==
    IF call.failed_at > 0 THEN Len(call.executed) - 1 ELSE Len(call.executed)

\* The SQL of the first k queued tasks, the tasks not requiring evolution
\* contributing none.
ExpectedSql(k) ==
    SeqConcat([i \in 1..k |->
                 IF tasks[i].evolution_required THEN tasks[i].sql ELSE <<>>])

\* The signals of the first k queued tasks executed successfully.
ExpectedSignals(k) ==
    SeqConcat([i \in 1..k |->
                 IF tasks[i].evolution_required
                    /\ tasks[i].type = "EvolveAppTask"
                 THEN << <<"applying_evolution", tasks[i].id>>,
                         <<"applied_evolution", tasks[i].id>> >>
                 ELSE <<>>])

\* The Evolution entries of all queued tasks, in queue order.
AllNewEvolutions ==
    SeqConcat([i \in 1..Len(tasks) |-> tasks[i].new_evolutions])

\* C1: when execute of the N-th queued task fails during evolve(), then
\* after evolve() has raised the database holds no SQL effect of tasks
\* 1..N-1, no new Version and no new Evolution row, and the call executed
\* tasks 1..N only (tasks N+1..K were not executed).
C1_FailedExecuteLeavesNothing ==
    (pc = "idle" /\ call.failed_at > 0) =>
        /\ db.sql = call.db_before.sql
        /\ db.versions = call.db_before.versions
        /\ db.evolutions = call.db_before.evolutions
        /\ txn = db
        /\ call.outcome.exc # NoException
        /\ call.executed = [i \in 1..call.failed_at |-> tasks[i].id]

\* Three tasks are queued, the first ran SQL in the transaction and the
\* second failed.
C1_Witness ==
    /\ pc = "idle"
    /\ Len(tasks) = 3
    /\ call.failed_at = 2
    /\ tasks[1].evolution_required
    /\ tasks[1].sql # <<>>

\* C2: when the creation of the Version or the bulk insert of the Evolution
\* rows fails after every task executed, evolve() raises
\* EvolutionExecutionError, nothing of the transaction (the SQL of the tasks
\* included) is persisted and evolved stays false.
C2_FailedSaveAbortsAll ==
    (pc = "idle" /\ call.save_failed) =>
        /\ call.outcome.exc = "EvolutionExecutionError"
        /\ call.executed = [i \in 1..Len(tasks) |-> tasks[i].id]
        /\ db = call.db_before
        /\ txn = db
        /\ ~evolved

\* The save failed after two tasks ran their SQL.
C2_Witness ==
    /\ pc = "idle"
    /\ call.save_failed
    /\ Len(tasks) >= 2
    /\ \A i \in 1..2 : tasks[i].evolution_required /\ tasks[i].sql # <<>>

\* C3: once evolve() has completed successfully, every further evolve()
\* call raises EvolutionException without preparing or executing a task and
\* without creating a Version or an Evolution row.
C3_EvolvedFailsFast ==
    [][(evolved /\ call'.n = call.n + 1) =>
          /\ last'.op = "evolve"
          /\ last'.exc = "EvolutionException"
          /\ pc' = "idle"
          /\ tasks' = tasks
          /\ project_sig' = project_sig
          /\ db' = db
          /\ txn' = txn
          /\ evolved']_vars

\* evolve() was called again on an evolved Evolver with tasks queued.
C3_Witness ==
    /\ evolved
    /\ call.n = 2
    /\ call.outcome.exc = "EvolutionException"
    /\ \E i \in 1..Len(tasks) : tasks[i].evolution_required

\* C4: over any sequence of evolve() calls on the Evolver, calls made after
\* an earlier call raised included, execute of a queued task is run by at
\* most one of the calls.
C4_ExecutedByOneCall ==
    \A i \in 1..Len(tasks) : tasks[i].n_execute <= 1

\* C5: once the tasks are prepared, every queue_task, queue_evolve_app and
\* queue_purge_app call fails with QueueEvolverTaskError and leaves the
\* queue unchanged.
C5_QueueClosedOncePrepared ==
    [][(tasks_prepared /\ last'.op \in QueueOps) =>
          /\ last'.exc = "QueueEvolverTaskError"
          /\ tasks' = tasks]_vars

\* A task that is not queued was refused after the tasks were prepared.
C5_Witness ==
    /\ tasks_prepared
    /\ last.op \in QueueOps
    /\ last.exc = "QueueEvolverTaskError"
    /\ last.arg \notin TaskIds(tasks)
    /\ tasks # <<>>

\* C6: before preparation, queuing a task whose id is that of a queued task
\* fails with EvolutionTaskAlreadyQueuedError; the queued task stays where
\* it is and the queue keeps its length.
C6_DuplicateRefused ==
    [][(~tasks_prepared /\ last'.op \in QueueOps
        /\ last'.arg \in TaskIds(tasks)) =>
          /\ last'.exc = "EvolutionTaskAlreadyQueuedError"
          /\ tasks' = tasks]_vars

\* The task queued first was queued again after another one.
C6_Witness ==
    /\ ~tasks_prepared
    /\ last.op \in QueueOps
    /\ last.exc = "EvolutionTaskAlreadyQueuedError"
    /\ Len(tasks) >= 2
    /\ tasks[1].id = last.arg

\* C7: evolve() executes the queued tasks in the order they were queued,
\* runs the SQL of the tasks whose evolution_required is true, and a task
\* whose evolution_required is false runs no SQL and sends no signal.
C7_QueueOrderAndRequiredOnly ==
    LET k == Len(call.executed) IN
    /\ k <= Len(tasks)
    /\ call.executed = [i \in 1..k |-> tasks[i].id]
    /\ pc = "executing" =>
          /\ cursor = k + 1
          /\ txn.sql = call.db_before.sql \o ExpectedSql(k)
          /\ signals = ExpectedSignals(k)
    /\ pc = "committed" =>
          /\ k = Len(tasks)
          /\ db.sql = call.db_before.sql \o ExpectedSql(k)
          /\ signals = ExpectedSignals(k)
    /\ (pc = "idle" /\ call.failed_at > 0) =>
          /\ tasks[k].evolution_required
          /\ signals = ExpectedSignals(k - 1) \o
                IF tasks[k].type = "EvolveAppTask"
                THEN << <<"applying_evolution", tasks[k].id>> >>
                ELSE <<>>

\* Three tasks were executed, one of them an EvolveAppTask that required no
\* evolution, the other two with SQL.
C7_Witness ==
    /\ pc = "committed"
    /\ Len(tasks) = 3
    /\ tasks[2].type = "EvolveAppTask"
    /\ ~tasks[2].evolution_required
    /\ tasks[1].sql # <<>>
    /\ tasks[3].sql # <<>>
    /\ tasks[3].type = "EvolveAppTask"

\* C8: over any sequence of Evolver operations, prepare() is invoked at
\* most once on each queued task.
C8_PreparedAtMostOnce ==
    \A i \in 1..Len(tasks) : tasks[i].n_prepare <= 1

\* The tasks were read again after evolve() had prepared and executed them.
C8_Witness ==
    /\ evolved
    /\ last.op = "can_simulate"
    /\ Len(tasks) >= 2
    /\ \A i \in 1..Len(tasks) : tasks[i].n_prepare = 1

\* C9: whatever attributes the exception raised by the execution of a
\* task's SQL has, execute raises an EvolutionExecutionError carrying the
\* application label, the error text and the last statement attempted.
C9_OnlyExecutionErrorEscapes ==
    call.failed_at > 0 =>
        /\ call.outcome.exc = "EvolutionExecutionError"
        /\ call.outcome.app_label = tasks[call.failed_at].app_label
        /\ call.outcome.detailed_error = "DatabaseError"
        /\ call.outcome.last_sql_statement
              \in Range(tasks[call.failed_at].sql)

\* C10: when evolve() succeeds, one Version holding the project signature
\* has been created, one Evolution row tagged with it has been inserted for
\* each entry of new_evolutions of every task in queue order, and evolved
\* becomes true only after that.
C10_VersionThenEvolved ==
    LET version == Len(call.db_before.versions) + 1
        saved ==
            /\ db.versions = Append(call.db_before.versions, project_sig)
            /\ db.evolutions = call.db_before.evolutions \o
                  [i \in 1..Len(AllNewEvolutions) |->
                      [app_label |-> AllNewEvolutions[i].app_label,
                       label |-> AllNewEvolutions[i].label,
                       version |-> version]]
    IN
    /\ pc = "committed" => saved /\ ~evolved
    /\ (pc = "idle" /\ call.n > 0 /\ call.outcome.exc = NoException) =>
          saved /\ evolved
    /\ evolved =>
          /\ Len(db.versions) > 1
          /\ db.versions[Len(db.versions)] = project_sig
          /\ Len(db.evolutions) >= Len(AllNewEvolutions)
          /\ SubSeq(db.evolutions,
                    Len(db.evolutions) - Len(AllNewEvolutions) + 1,
                    Len(db.evolutions))
                = [j \in 1..Len(AllNewEvolutions) |->
                     [app_label |-> AllNewEvolutions[j].app_label,
                      label |-> AllNewEvolutions[j].label,
                      version |-> Len(db.versions)]]

\* evolve() succeeded with two tasks that each recorded evolutions.
C10_Witness ==
    /\ evolved
    /\ call.outcome.exc = NoException
    /\ Len(tasks) >= 2
    /\ tasks[1].new_evolutions # <<>>
    /\ tasks[2].new_evolutions # <<>>

AppliedLabels(app, database) ==
    {r.label : r \in {x \in Range(database.evolutions) : x.app_label = app}}

\* C12: get_unapplied_evolutions(app, database) returns, in sequence order,
\* exactly the labels of the application's evolution sequence that have no
\* Evolution row with that application label in the database, and a label
\* an evolve() call recorded is not returned once that call has succeeded.
C12_UnappliedAreTheUnrecorded ==
    /\ \A app \in Apps :
          LET unapplied == GetUnappliedEvolutions(app, db)
              sequence == GetEvolutionSequence(app)
          IN  /\ \A i \in 1..Len(sequence) :
                    sequence[i] \in Range(unapplied)
                        <=> sequence[i] \notin AppliedLabels(app, db)
              /\ Range(unapplied) \subseteq Range(sequence)
              /\ \A i, j \in 1..Len(unapplied) :
                    i < j => LabelIndex(unapplied[i]) < LabelIndex(unapplied[j])
    /\ evolved =>
          \A i \in 1..Len(tasks) :
              \A j \in 1..Len(tasks[i].new_evolutions) :
                  tasks[i].new_evolutions[j].label \notin
                      Range(GetUnappliedEvolutions(tasks[i].app_label, db))

\* evolve() succeeded and recorded the second label of an application whose
\* first label was recorded before, while the other application keeps an
\* unapplied label that another application has a row for.
C12_Witness ==
    /\ evolved
    /\ pc = "idle"
    /\ \E i \in 1..Len(tasks) :
          /\ tasks[i].app_label = "app1"
          /\ tasks[i].new_evolutions = <<Evolution("app1", AllLabels[2])>>
    /\ GetUnappliedEvolutions("app1", db) = <<>>
    /\ GetUnappliedEvolutions("app2", db) # <<>>

\* The model M of app1 in a project signature that has it.
ModelM(project_sig_arg) ==
    Lookup(Lookup(project_sig_arg.app_sigs, "app_id", "app1").model_sigs,
           "model_name", "M")

\* The models of app1 that the database has and the latest Version lacks.
NewModels ==
    Keys(Lookup(new_sig.app_sigs, "app_id", "app1").model_sigs, "model_name")
        \ Keys(Lookup(old_sig.app_sigs, "app_id", "app1").model_sigs,
               "model_name")

\* C13: when get_mutations takes the mutations from stored evolutions that
\* are not applied, it returns the list without any mutation of a model
\* that is in the current signature and not in the stored one, RenameModel
\* mutations excepted, which stay in the list.
C13_NewModelMutationsExcluded ==
    (/\ computed.op = "get_mutations"
     /\ "app1" \in Keys(old_sig.app_sigs, "app_id")
     /\ "app1" \in Keys(new_sig.app_sigs, "app_id")) =>
        /\ computed.result.exc = NoException
        /\ \A i \in 1..Len(StoredMutations("app1")) :
              LET m == StoredMutations("app1")[i] IN
              /\ (HasModelName(m) /\ m.model_name \in NewModels
                  /\ m.kind # "RenameModel")
                    => m \notin Range(computed.result.mutations)
              /\ m.kind = "RenameModel"
                    => m \in Range(computed.result.mutations)

\* Whether some model of the project signature has a unique_together that
\* is not empty and was not applied.
HasLegacyUniqueTogether(project_sig_arg) ==
    \E a \in Range(project_sig_arg.app_sigs) :
        \E m \in Range(a.model_sigs) :
            m.unique_together # <<>> /\ ~m.unique_together_applied

\* C14 as stated: S.diff(S) is the empty structure for every signature S,
\* whatever its unique_together values and unique_together_applied flags.
C14_SelfDiffEmpty ==
    (computed.op = "diff" /\ old_sig = new_sig) =>
        DOMAIN computed.value = {}

\* C14, amended: S.diff(S) is the empty structure for every project,
\* application, model and field signature S in which no model has a
\* unique_together that is both non-empty and not applied; a model with
\* such a unique_together diffs against itself as
\* {'meta_changed': ['unique_together']}.
C14_SelfDiffEmptyUnlessLegacy ==
    (computed.op = "diff" /\ old_sig = new_sig) =>
        /\ ~HasLegacyUniqueTogether(new_sig) => DOMAIN computed.value = {}
        /\ \A a \in Range(new_sig.app_sigs) :
              /\ ~HasLegacyUniqueTogether(ProjectSignature(<<a>>))
                    => DOMAIN AppSignatureDiff(a, a) = {}
              /\ \A m \in Range(a.model_sigs) :
                    /\ ModelSignatureDiff(m, m) =
                          IF m.unique_together # <<>>
                             /\ ~m.unique_together_applied
                          THEN [meta_changed |-> <<"unique_together">>]
                          ELSE <<>>
                    /\ \A f \in Range(m.field_sigs) :
                          FieldSignatureDiff(f, f) = {}

\* A project whose model M has fields and an empty unique_together that was
\* not applied diffs against itself as the empty structure.
C14_Witness ==
    /\ computed.op = "diff"
    /\ old_sig = new_sig
    /\ DOMAIN computed.value = {}
    /\ \E a \in Range(new_sig.app_sigs) :
          \E m \in Range(a.model_sigs) :
              /\ ~m.unique_together_applied
              /\ Len(m.field_sigs) = 2

\* C15: for any unique_together value, two ModelSignatures that differ in
\* nothing but their unique_together_applied flags compare unequal with
\* either of them as the left operand, and has_unique_together_changed is
\* true when the old signature is the one that is not applied.
C15_FlagDifferenceUnequal ==
    (/\ computed.op = "compare"
     /\ ModelM(new_sig) =
          [ModelM(old_sig) EXCEPT !.unique_together_applied = ~@]) =>
        /\ ~computed.eq
        /\ ~computed.reverse_eq
        /\ ~ModelM(old_sig).unique_together_applied
              => computed.has_unique_together_changed

\* C16 as stated: no diff holds a key whose value is empty, at any nesting
\* level.
DiffBranchesNonEmpty(diff) ==
    /\ "changed" \in DOMAIN diff =>
          /\ DOMAIN diff.changed # {}
          /\ \A a \in DOMAIN diff.changed :
                LET app_diff == diff.changed[a] IN
                /\ DOMAIN app_diff # {}
                /\ "deleted" \in DOMAIN app_diff => app_diff.deleted # <<>>
                /\ "changed" \in DOMAIN app_diff =>
                      /\ DOMAIN app_diff.changed # {}
                      /\ \A m \in DOMAIN app_diff.changed :
                            LET model_diff == app_diff.changed[m] IN
                            /\ DOMAIN model_diff # {}
                            /\ "added" \in DOMAIN model_diff
                                  => model_diff.added # <<>>
                            /\ "deleted" \in DOMAIN model_diff
                                  => model_diff.deleted # <<>>
                            /\ "meta_changed" \in DOMAIN model_diff
                                  => model_diff.meta_changed # <<>>
                            /\ "changed" \in DOMAIN model_diff =>
                                  /\ DOMAIN model_diff.changed # {}
                                  /\ \A f \in DOMAIN model_diff.changed :
                                        model_diff.changed[f] # {}
    /\ "deleted" \in DOMAIN diff => DOMAIN diff.deleted # {}

ModelStructEq(a, b) ==
    /\ [a EXCEPT !.field_sigs = <<>>, !.index_sigs = <<>>]
         = [b EXCEPT !.field_sigs = <<>>, !.index_sigs = <<>>]
    /\ IndexListEq(a.index_sigs, b.index_sigs)
    /\ SameKeys(a.field_sigs, b.field_sigs, "field_name")
    /\ \A p \in Paired(a.field_sigs, b.field_sigs, "field_name") :
          FieldSignatureEq(p[1], p[2])

AppStructEq(a, b) ==
    /\ a.app_id = b.app_id
    /\ SameKeys(a.model_sigs, b.model_sigs, "model_name")
    /\ \A p \in Paired(a.model_sigs, b.model_sigs, "model_name") :
          ModelStructEq(p[1], p[2])

ProjectStructEq(a, b) ==
    /\ SameKeys(a.app_sigs, b.app_sigs, "app_id")
    /\ \A p \in Paired(a.app_sigs, b.app_sigs, "app_id") :
          AppStructEq(p[1], p[2])

\* C18: for every ProjectSignature S, ProjectSignature.deserialize(
\* S.serialize()) is structurally equal to S.
C18_RoundTripIsStructurallyEqual ==
    computed.op = "round_trip" => ProjectStructEq(computed.value, new_sig)

\* C17: clone() yields a copy that shares no mutable state with the
\* original: the clone holds what the original holds, and adding, removing
\* or changing applications, models, fields, field attributes,
\* unique_together or index_together entries or index field lists on one of
\* the two leaves what the other holds unchanged.
C17_CloneSharesNothing ==
    [][/\ (cloned = 0 /\ cloned' # 0) =>
            /\ Contents(heap', cloned') = Contents(heap, original)
            /\ Contents(heap', original) = Contents(heap, original)
       /\ (cloned # 0 /\ n_changes' = n_changes + 1) =>
            /\ touched' = "original" =>
                  Contents(heap', cloned) = Contents(heap, cloned)
            /\ touched' = "cloned" =>
                  Contents(heap', original) = Contents(heap, original)]_vars

\* An attribute was set on the first field of the clone and an entry added
\* to the unique_together of the original, in either order.
C17_Witness ==
    /\ cloned # 0
    /\ n_changes = 2
    /\ touched # "none"
    /\ LET model(root) == Target(heap, root, "add_field_sig")
           field(root) == Target(heap, root, "set_field_attr")
           attrs(root) == heap[heap[field(root)].field_attrs].items
           together(root) == heap[heap[model(root)].unique_together].items
       IN  /\ field(original) # 0
           /\ field(cloned) # 0
           /\ DOMAIN attrs(original) = {}
           /\ DOMAIN attrs(cloned) = {"null"}
           /\ Len(together(original)) = Len(together(cloned)) + 1

C20_HintSimulatesToTarget ==
    (computed.op = "simulate_hint" /\ computed.evolution # <<>>) =>
        /\ computed.result.exc = NoException
        /\ ProjectStructEq(computed.result.sig, new_sig)

\* The model and the field a mutation names, and whether the application,
\* the model or the field it names is absent from a dictionary signature.
TargetModel(mutation) ==
    IF mutation.class = "RenameModel" THEN mutation.old_model_name
    ELSE mutation.model_name

TargetField(mutation) ==
    IF mutation.class = "RenameField" THEN mutation.old_field_name
    ELSE mutation.field_name

ModelAbsent(mutation, app_label, sig) ==
    \/ ~HasItem(sig, app_label)
    \/ ~HasItem(Item(sig, app_label), TargetModel(mutation))

FieldAbsent(mutation, app_label, sig) ==
    /\ ~ModelAbsent(mutation, app_label, sig)
    /\ ~HasItem(Item(Item(sig, app_label), TargetModel(mutation)).fields,
                TargetField(mutation))

FieldMutations == {"DeleteField", "RenameField", "ChangeField"}
ModelMutations ==
    FieldMutations \cup {"AddField", "RenameModel", "DeleteModel",
                         "ChangeMeta"}

\* C21: simulate() of DeleteField, AddField, RenameField, ChangeField,
\* RenameModel, DeleteModel and ChangeMeta raises SimulationFailure, and
\* neither returns in silence nor raises anything else, when the
\* application or the model it names is not in the signature, and so do
\* DeleteField, RenameField and ChangeField when the field is not there.
C21_AbsentTargetFailsSimulation ==
    (/\ simulated.op = "simulate"
     /\ simulated.mutation.class \in ModelMutations
     /\ \/ ModelAbsent(simulated.mutation, simulated.app_label,
                       simulated.before)
        \/ /\ simulated.mutation.class \in FieldMutations
           /\ FieldAbsent(simulated.mutation, simulated.app_label,
                          simulated.before))
        => simulated.exc = "SimulationFailure"

\* A DeleteField of a field that the model does not have was simulated on
\* a signature that has the model.
C21_Witness ==
    /\ simulated.op = "simulate"
    /\ simulated.mutation.class = "DeleteField"
    /\ FieldAbsent(simulated.mutation, simulated.app_label,
                   simulated.before)
    /\ simulated.exc = "SimulationFailure"
    /\ proj_sig_dict = simulated.before

\* The field a mutation names, in a dictionary signature that has it.
Field(mutation, app_label, sig) ==
    Item(Item(Item(sig, app_label), TargetModel(mutation)).fields,
         TargetField(mutation))

\* C22: DeleteField.simulate on a field whose signature has primary_key
\* True raises SimulationFailure whatever the database argument is, and the
\* field is still in the signature, which is left as it was.
C22_PrimaryKeyIsNotDeleted ==
    (/\ simulated.op = "simulate"
     /\ simulated.mutation.class = "DeleteField"
     /\ ~ModelAbsent(simulated.mutation, simulated.app_label,
                     simulated.before)
     /\ ~FieldAbsent(simulated.mutation, simulated.app_label,
                     simulated.before)
     /\ LET field == Field(simulated.mutation, simulated.app_label,
                           simulated.before)
        IN  "primary_key" \in DOMAIN field /\ field.primary_key = "True")
        => /\ simulated.exc = "SimulationFailure"
           /\ proj_sig_dict = simulated.before
           /\ ~FieldAbsent(simulated.mutation, simulated.app_label,
                           proj_sig_dict)

\* The deletion of the primary key 'id' of app1.M was simulated for the
\* database 'default' and failed.
C22_Witness ==
    /\ simulated.op = "simulate"
    /\ simulated.mutation.class = "DeleteField"
    /\ simulated.mutation.field_name = "id"
    /\ simulated.database = "default"
    /\ ~ModelAbsent(simulated.mutation, simulated.app_label,
                    simulated.before)
    /\ Field(simulated.mutation, simulated.app_label,
             proj_sig_dict).primary_key = "True"
    /\ simulated.exc = "SimulationFailure"

\* The model a mutation names, in a dictionary signature that has it.
ModelSig(mutation, app_label, sig) ==
    Item(Item(sig, app_label), TargetModel(mutation))

\* A dictionary signature with the fields of one model replaced.
WithFields(sig, app_label, model_name, fields) ==
    WithModelSig(sig, app_label, model_name,
                 [Item(Item(sig, app_label), model_name)
                     EXCEPT !.fields = fields])

\* C23: on a signature that has the model, AddField.simulate raises
\* SimulationFailure exactly when the model already has a field of that
\* name, or the field is not a ManyToManyField, is not given null=True and
\* has no initial value; in every other case, an initial value of 0
\* included, it adds the field's signature, holding the field type and the
\* attributes given, and changes nothing else.
C23_AddFieldFailsOrAdds ==
    (/\ simulated.op = "simulate"
     /\ simulated.mutation.class = "AddField"
     /\ ~ModelAbsent(simulated.mutation, simulated.app_label,
                     simulated.before))
        =>
        LET self == simulated.mutation
            app_label == simulated.app_label
            exists == ~FieldAbsent(self, app_label, simulated.before)
            null_true ==
                /\ "null" \in DOMAIN self.field_attrs
                /\ self.field_attrs.null = "True"
            fails ==
                \/ exists
                \/ /\ self.field_type # "ManyToManyField"
                   /\ ~null_true
                   /\ self.initial = None
        IN  /\ simulated.exc = IF fails THEN "SimulationFailure"
                               ELSE NoException
            /\ fails => proj_sig_dict = simulated.before
            /\ ~fails =>
                  /\ ~FieldAbsent(self, app_label, proj_sig_dict)
                  /\ LET field == Field(self, app_label, proj_sig_dict)
                     IN  /\ field.field_type = self.field_type
                         /\ DOMAIN field =
                               {"field_type"} \cup DOMAIN self.field_attrs
                         /\ \A attr \in DOMAIN self.field_attrs :
                               field[attr] = self.field_attrs[attr]
                  /\ WithFields(
                        proj_sig_dict, app_label, self.model_name,
                        DelItem(ModelSig(self, app_label,
                                         proj_sig_dict).fields,
                                self.field_name))
                        = simulated.before

\* An IntegerField that is not nullable was added with the initial value 0.
C23_Witness ==
    /\ simulated.op = "simulate"
    /\ simulated.mutation.class = "AddField"
    /\ simulated.mutation.field_type = "IntegerField"
    /\ simulated.mutation.initial = "0"
    /\ "null" \notin DOMAIN simulated.mutation.field_attrs
    /\ simulated.exc = NoException
    /\ ~ModelAbsent(simulated.mutation, simulated.app_label, proj_sig_dict)
    /\ ~FieldAbsent(simulated.mutation, simulated.app_label, proj_sig_dict)
    /\ proj_sig_dict # simulated.before

\* The renamings of a field that are tried after it was added.
Renamings(model_name, field_name) ==
    {[class |-> "RenameField", model_name |-> model_name,
      old_field_name |-> field_name, new_field_name |-> "alias",
      db_column |-> db_column, db_table |-> None] :
        db_column \in {None, "col"}}

\* C24: RenameField.simulate(M, f, g) takes the field's signature from the
\* key f to the key g, with its field type and its other attributes as
\* they were, and with db_column (db_table for a ManyToManyField) set to
\* the value given or removed when none is given.  In particular, after
\* AddField(M, f, ...) was simulated, simulating RenameField(M, f, g) gives
\* a model that has the field g with the type and the nullability that
\* were added, and no field f.
C24_RenameFieldMovesSignature ==
    /\ (/\ simulated.op = "simulate"
        /\ simulated.mutation.class = "RenameField"
        /\ ~ModelAbsent(simulated.mutation, simulated.app_label,
                        simulated.before)
        /\ ~FieldAbsent(simulated.mutation, simulated.app_label,
                        simulated.before))
          =>
          LET self == simulated.mutation
              old == Field(self, simulated.app_label, simulated.before)
              fields == ModelSig(self, simulated.app_label,
                                 proj_sig_dict).fields
              name == IF old.field_type = "ManyToManyField"
                      THEN "db_table" ELSE "db_column"
              given == IF old.field_type = "ManyToManyField"
                       THEN self.db_table ELSE self.db_column
          IN  /\ simulated.exc = NoException
              /\ ~HasItem(fields, self.old_field_name)
              /\ HasItem(fields, self.new_field_name)
              /\ LET new == Item(fields, self.new_field_name)
                 IN  /\ new.field_type = old.field_type
                     /\ Pop(new, name) = Pop(old, name)
                     /\ IF given = None THEN name \notin DOMAIN new
                        ELSE name \in DOMAIN new /\ new[name] = given
    /\ (/\ simulated.op = "simulate"
        /\ simulated.mutation.class = "AddField"
        /\ simulated.exc = NoException)
          =>
          \A rename \in Renamings(simulated.mutation.model_name,
                                  simulated.mutation.field_name) :
              LET added == simulated.mutation
                  renamed == RenameFieldSimulate(rename,
                                                 simulated.app_label,
                                                 proj_sig_dict, None)
                  fields == ModelSig(rename, simulated.app_label,
                                     renamed.proj_sig).fields
              IN  /\ renamed.exc = NoException
                  /\ ~HasItem(fields, added.field_name)
                  /\ HasItem(fields, "alias")
                  /\ Item(fields, "alias").field_type = added.field_type
                  /\ Pop(Item(fields, "alias"), "db_column")
                        = Update([field_type |-> added.field_type],
                                 added.field_attrs)

\* The field 'zip', which is in a model only after an AddField, was renamed
\* with a column name given: the model has 'years' with that column name
\* and no 'zip'.
C24_Witness ==
    /\ simulated.op = "simulate"
    /\ simulated.mutation.class = "RenameField"
    /\ simulated.mutation.old_field_name = "zip"
    /\ simulated.mutation.db_column = "col"
    /\ simulated.exc = NoException
    /\ Field(simulated.mutation, simulated.app_label,
             simulated.before).field_type = "IntegerField"
    /\ ~HasItem(ModelSig(simulated.mutation, simulated.app_label,
                         proj_sig_dict).fields, "zip")
    /\ Item(ModelSig(simulated.mutation, simulated.app_label,
                     proj_sig_dict).fields, "years").db_column = "col"

\* C25: ChangeField.simulate on a field the model has merges the attribute
\* values given into the field's signature, leaves the field's other
\* attributes and every other field as they were, and raises
\* SimulationFailure when (and only when) it sets null to False on a field
\* that is not a ManyToManyField without an initial value.
C25_ChangeFieldMerges ==
    (/\ simulated.op = "simulate"
     /\ simulated.mutation.class = "ChangeField"
     /\ ~ModelAbsent(simulated.mutation, simulated.app_label,
                     simulated.before)
     /\ ~FieldAbsent(simulated.mutation, simulated.app_label,
                     simulated.before))
        =>
        LET self == simulated.mutation
            old == Field(self, simulated.app_label, simulated.before)
            fails ==
                /\ "null" \in DOMAIN self.field_attrs
                /\ self.field_attrs.null = "False"
                /\ old.field_type # "ManyToManyField"
                /\ self.initial = None
        IN  /\ ~ModelAbsent(self, simulated.app_label, proj_sig_dict)
            /\ ~FieldAbsent(self, simulated.app_label, proj_sig_dict)
            /\ LET new == Field(self, simulated.app_label, proj_sig_dict)
               IN  /\ DOMAIN new = DOMAIN old \cup DOMAIN self.field_attrs
                   /\ \A attr \in DOMAIN new :
                         new[attr] =
                             IF attr \in DOMAIN self.field_attrs
                             THEN self.field_attrs[attr] ELSE old[attr]
            /\ WithFields(
                  proj_sig_dict, simulated.app_label, self.model_name,
                  SetItem(ModelSig(self, simulated.app_label,
                                   proj_sig_dict).fields,
                          self.field_name, old))
                  = simulated.before
            /\ simulated.exc = IF fails THEN "SimulationFailure"
                               ELSE NoException

\* The field 'age', whose null had been set by an earlier mutation, was
\* given a max_length only and kept its null.
C25_Witness ==
    /\ simulated.op = "simulate"
    /\ simulated.mutation.class = "ChangeField"
    /\ simulated.mutation.field_name = "age"
    /\ "max_length" \in DOMAIN simulated.mutation.field_attrs
    /\ simulated.exc = NoException
    /\ ~ModelAbsent(simulated.mutation, simulated.app_label, proj_sig_dict)
    /\ ~FieldAbsent(simulated.mutation, simulated.app_label, proj_sig_dict)
    /\ Field(simulated.mutation, simulated.app_label,
             proj_sig_dict).max_length = "20"
    /\ "null" \in DOMAIN Field(simulated.mutation, simulated.app_label,
                               proj_sig_dict)

\* The related_model of every field of a dictionary signature that has one,
\* with the application, the model and the field it is found in.
RelatedModels(sig) ==
    UNION {UNION {{<<app.key, model.key, field.key,
                     field.value.related_model>> :
                      field \in {e \in Range(model.value.fields) :
                                    "related_model" \in DOMAIN e.value}} :
                  model \in Range(app.value)} :
           app \in {e \in Range(sig) : e.key # "__version__"}}

\* C26: after RenameModel(old, new).simulate has succeeded for the
\* application A (new being another name than old), A has the model's
\* signature under new and nothing under old; every field of every
\* application whose related_model was 'A.old' has the related_model
\* 'A.new'; and the related_model of no other field has changed.
C26_RenameModelRewritesRelations ==
    (/\ simulated.op = "simulate"
     /\ simulated.mutation.class = "RenameModel"
     /\ simulated.mutation.new_model_name
           # simulated.mutation.old_model_name
     /\ simulated.exc = NoException)
        =>
        LET self == simulated.mutation
            A == simulated.app_label
            app_sig == Item(proj_sig_dict, A)
            renamed(t) ==
                <<t[1],
                  IF t[1] = A /\ t[2] = self.old_model_name
                  THEN self.new_model_name ELSE t[2],
                  t[3],
                  IF t[4] = A \o "." \o self.old_model_name
                  THEN A \o "." \o self.new_model_name ELSE t[4]>>
        IN  /\ HasItem(app_sig, self.new_model_name)
            /\ ~HasItem(app_sig, self.old_model_name)
            /\ Item(app_sig, self.new_model_name).fields
                  = [i \in 1..Len(ModelSig(self, A,
                                           simulated.before).fields) |->
                        LET e == ModelSig(self, A,
                                          simulated.before).fields[i]
                        IN  IF "related_model" \in DOMAIN e.value
                            THEN [e EXCEPT !.value.related_model =
                                     renamed(<<A, self.old_model_name,
                                               e.key, @>>)[4]]
                            ELSE e]
            /\ RelatedModels(proj_sig_dict)
                  = {renamed(t) : t \in RelatedModels(simulated.before)}

\* C27: DeleteApplication.simulate removes every model signature of the
\* application whose deletion is mutable for the database (every one when a
\* database is given, none when no database is given) and nothing else;
\* and when the application is not in the project signature it returns
\* without raising and leaves the signature as it was.
C27_DeleteApplicationToleratesAbsence ==
    (/\ simulated.op = "simulate"
     /\ simulated.mutation.class = "DeleteApplication")
        =>
        /\ simulated.exc = NoException
        /\ IF ~HasItem(simulated.before, simulated.app_label)
           THEN proj_sig_dict = simulated.before
           ELSE proj_sig_dict =
                   SetItem(simulated.before, simulated.app_label,
                           SelectSeq(
                               Item(simulated.before, simulated.app_label),
                               LAMBDA e :
                                   ~IsMutable(
                                       Mutation(simulated.app_label, "none",
                                                "model"),
                                       IF simulated.database = None
                                       THEN "" ELSE simulated.database)))

\* C28: when RenameField or DeleteField is simulated with success on a
\* field that a tuple of the model's unique_together or index_together
\* names, the same simulate step substitutes the field's name in those
\* tuples (the new name for the old one, for a RenameField), and every
\* tuple has as many names as it had.
C28_TogetherFollowsField ==
    (/\ simulated.op = "simulate"
     /\ simulated.mutation.class \in {"RenameField", "DeleteField"}
     /\ simulated.exc = NoException
     /\ LET meta == ModelSig(simulated.mutation, simulated.app_label,
                             simulated.before).meta
        IN  \E tuple \in Range(meta.unique_together)
                            \cup Range(meta.index_together) :
                TargetField(simulated.mutation) \in Range(tuple))
        =>
        LET self == simulated.mutation
            old_meta == ModelSig(self, simulated.app_label,
                                 simulated.before).meta
            new_meta == ModelSig(self, simulated.app_label,
                                 proj_sig_dict).meta
        IN  \A prop \in {"unique_together", "index_together"} :
                /\ Len(new_meta[prop]) = Len(old_meta[prop])
                /\ \A i \in 1..Len(old_meta[prop]) :
                      /\ Len(new_meta[prop][i]) = Len(old_meta[prop][i])
                      /\ TargetField(self) \notin Range(new_meta[prop][i])
                      /\ self.class = "RenameField" =>
                            new_meta[prop][i] =
                                [j \in 1..Len(old_meta[prop][i]) |->
                                    IF old_meta[prop][i][j]
                                          = self.old_field_name
                                    THEN self.new_field_name
                                    ELSE old_meta[prop][i][j]]

\* C29: ChangeMeta.simulate on a model the signature has and a property the
\* backend supports sets that property of the model's meta to the new
\* value and leaves the model's fields, its other meta properties and the
\* rest of the signature as they were; for unique_together it also marks
\* unique_together as applied, so that comparing the model afterwards with
\* a model whose unique_together has the same value reports no change.
C29_ChangeMetaSetsProperty ==
    (/\ simulated.op = "simulate"
     /\ simulated.mutation.class = "ChangeMeta"
     /\ simulated.mutation.prop_name \in supported_change_meta
     /\ ~ModelAbsent(simulated.mutation, simulated.app_label,
                     simulated.before))
        =>
        LET self == simulated.mutation
            old == ModelSig(self, simulated.app_label, simulated.before)
            marked == IF self.prop_name = "unique_together"
                      THEN {"unique_together_applied"} ELSE {}
        IN  /\ simulated.exc = NoException
            /\ ~ModelAbsent(self, simulated.app_label, proj_sig_dict)
            /\ LET new == ModelSig(self, simulated.app_label, proj_sig_dict)
               IN  /\ new.meta[self.prop_name] = self.new_value
                   /\ new.fields = old.fields
                   /\ DOMAIN new.meta = DOMAIN old.meta
                   /\ \A prop \in DOMAIN old.meta
                                     \ ({self.prop_name} \cup marked) :
                         new.meta[prop] = old.meta[prop]
                   /\ WithModelSig(proj_sig_dict, simulated.app_label,
                                   self.model_name, old)
                         = simulated.before
                   /\ self.prop_name = "unique_together" =>
                         /\ new.meta.unique_together_applied
                         /\ \A applied \in BOOLEAN :
                               ~has_unique_together_changed(
                                   new,
                                   [old EXCEPT
                                       !.meta.unique_together =
                                           self.new_value,
                                       !.meta.unique_together_applied =
                                           applied])

\* The unique_together of a model whose unique_together was not marked as
\* applied was set to a pair of fields: it is marked as applied, and
\* comparing the model with one of the same value reports no change.
C29_Witness ==
    /\ simulated.op = "simulate"
    /\ simulated.mutation.class = "ChangeMeta"
    /\ simulated.mutation.prop_name = "unique_together"
    /\ simulated.mutation.new_value # <<>>
    /\ simulated.exc = NoException
    /\ ~ModelSig(simulated.mutation, simulated.app_label,
                 simulated.before).meta.unique_together_applied
    /\ LET new == ModelSig(simulated.mutation, simulated.app_label,
                           proj_sig_dict)
       IN  /\ new.meta.unique_together = << <<"age", "nickname">> >>
           /\ new.meta.unique_together_applied
           /\ ~has_unique_together_changed(new, new)

\* C30 as stated: a ChangeField (when it is mutated) or a ChangeMeta (when
\* it is simulated, on a model the signature has) that names an attribute
\* or a meta property which the backend does not support always raises
\* EvolutionNotImplementedError and schedules no operation; it is never
\* passed over in silence.
C30_UnsupportedIsNotImplemented ==
    /\ (/\ simulated.op = "mutate"
        /\ simulated.mutation.class = "ChangeField"
        /\ \E attr \in DOMAIN simulated.mutation.field_attrs :
              attr \notin supported_change_attrs)
          => /\ simulated.exc = "EvolutionNotImplementedError"
             /\ mutator_ops = simulated.ops_before
    /\ (/\ simulated.op = "simulate"
        /\ simulated.mutation.class = "ChangeMeta"
        /\ simulated.mutation.prop_name \notin supported_change_meta
        /\ ~ModelAbsent(simulated.mutation, simulated.app_label,
                        simulated.before))
          => /\ simulated.exc = "EvolutionNotImplementedError"
             /\ mutator_ops = simulated.ops_before

\* C30, amended: a ChangeField that names an attribute which the backend
\* does not support always raises EvolutionNotImplementedError when it is
\* mutated and schedules no operation; a ChangeMeta that names a meta
\* property which the backend does not support always raises
\* SimulationFailure when it is simulated and leaves the signature as it
\* was; neither is passed over in silence.
C30_UnsupportedAlwaysFails ==
    /\ (/\ simulated.op = "mutate"
        /\ simulated.mutation.class = "ChangeField"
        /\ \E attr \in DOMAIN simulated.mutation.field_attrs :
              attr \notin supported_change_attrs)
          => /\ simulated.exc = "EvolutionNotImplementedError"
             /\ mutator_ops = simulated.ops_before
    /\ (/\ simulated.op = "simulate"
        /\ simulated.mutation.class = "ChangeMeta"
        /\ simulated.mutation.prop_name \notin supported_change_meta)
          => /\ simulated.exc = "SimulationFailure"
             /\ proj_sig_dict = simulated.before
             /\ mutator_ops = simulated.ops_before

\* After a change of max_length was scheduled, a ChangeField of
\* decimal_places was mutated: it raised EvolutionNotImplementedError and
\* the mutator holds the one operation it held.
C30_Witness ==
    /\ simulated.op = "mutate"
    /\ simulated.mutation.class = "ChangeField"
    /\ "decimal_places" \in DOMAIN simulated.mutation.field_attrs
    /\ simulated.exc = "EvolutionNotImplementedError"
    /\ Len(mutator_ops) = 1
    /\ mutator_ops[1].op = "change_column"
    /\ mutator_ops = simulated.ops_before

\* C31: SQLMutation.simulate calls the update_func it was given with the
\* application label and the project signature when that is a callable,
\* and otherwise raises CannotSimulate and leaves the signature as it was;
\* SQLMutation.is_mutable is true whatever its arguments are.
C31_SQLMutationCallsUpdateFunc ==
    (/\ simulated.op = "simulate"
     /\ simulated.mutation.class = "SQLMutation")
        =>
        /\ IF simulated.mutation.update_func = "update_func"
           THEN /\ simulated.exc = NoException
                /\ proj_sig_dict
                      = UpdateFunc(simulated.app_label, simulated.before)
           ELSE /\ simulated.exc = "CannotSimulate"
                /\ proj_sig_dict = simulated.before
        /\ \A app \in Apps, database \in {"", "default", "other"} :
              IsMutable(Mutation(app, "none", "sql"), database)

\* An SQLMutation with an update_func was simulated on a signature that
\* has app1: the model S that the function adds is in app1.
C31_Witness ==
    /\ simulated.op = "simulate"
    /\ simulated.mutation.class = "SQLMutation"
    /\ simulated.mutation.update_func = "update_func"
    /\ simulated.exc = NoException
    /\ HasItem(simulated.before, "app1")
    /\ ~HasItem(Item(simulated.before, "app1"), "S")
    /\ HasItem(Item(proj_sig_dict, "app1"), "S")

\* C32: is_mutable of a mutation that targets a model returns false when
\* the model lives on another database than the one being evolved, and
\* true when it lives on the database being evolved.
C32_MutableOnOwnDatabaseOnly ==
    (/\ simulated.op = "is_mutable"
     /\ simulated.database # None)
        => simulated.ret = (simulated.model_database = simulated.database)

\* Whether the claim of C33 counts the model of app1 as changed: it is in
\* the database's signature and differs from the stored one (a model the
\* stored signature lacks differs from it), or it is in the stored
\* signature and not in the database's.
ModelChanged(model_name) ==
    LET old_model_sigs == Lookup(old_sig.app_sigs, "app_id", "app1").model_sigs
        model_sigs == Lookup(new_sig.app_sigs, "app_id", "app1").model_sigs
        stored == model_name \in Keys(old_model_sigs, "model_name")
        current == model_name \in Keys(model_sigs, "model_name")
    IN  \/ stored /\ ~current
        \/ current /\ ~stored
        \/ /\ stored
           /\ current
           /\ ~ModelSignatureEq(
                   Lookup(old_model_sigs, "model_name", model_name),
                   Lookup(model_sigs, "model_name", model_name))

\* C33: get_mutations returns, in their order, the mutations that have no
\* model_name, those of a model whose stored and current signatures differ
\* or that was deleted from the current signature, and the RenameModel
\* mutations, and no other; when the stored or the current signature lacks
\* the application it returns all the mutations.
C33_KeepsMutationsOfChangedModels ==
    computed.op = "get_mutations" =>
        /\ computed.result.exc = NoException
        /\ computed.result.mutations =
              IF /\ "app1" \in Keys(old_sig.app_sigs, "app_id")
                 /\ "app1" \in Keys(new_sig.app_sigs, "app_id")
              THEN SelectSeq(StoredMutations("app1"),
                             LAMBDA m : \/ ~HasModelName(m)
                                        \/ ModelChanged(m.model_name)
                                        \/ m.kind = "RenameModel")
              ELSE StoredMutations("app1")

\* The positions in the history of the running or last evolve() call of
\* the events of the given kind about the task.
EventsOf(kind, task) ==
    {i \in 1..Len(call.events) :
        call.events[i].event = kind /\ call.events[i].task = task.id}

\* C34: for an EvolveAppTask that requires evolution, execute sends
\* applying_evolution before any statement of the task's SQL runs, and
\* applied_evolution only after all of them ran without raising; when a
\* statement raises, applied_evolution is not sent.
C34_SignalsAroundSql ==
    \A k \in 1..Len(tasks) :
        LET task == tasks[k]
            applying == EventsOf("applying_evolution", task)
            applied == EventsOf("applied_evolution", task)
            ran == EventsOf("ran", task)
            raised == EventsOf("raised", task)
        IN  (/\ task.type = "EvolveAppTask"
             /\ task.evolution_required
             /\ task.id \in Range(call.executed)) =>
                /\ Cardinality(applying) = 1
                /\ \A i \in applying : \A j \in ran \cup raised : i < j
                /\ \A i \in applied :
                      /\ raised = {}
                      /\ Cardinality(ran) = Len(task.sql)
                      /\ \A j \in ran : j < i
                /\ raised # {} => applied = {}
                /\ (raised = {} /\ pc = "idle") => Cardinality(applied) = 1

\* One EvolveAppTask ran all its SQL and sent both signals, and the SQL of
\* another raised after applying_evolution was sent.
C34_Witness ==
    \E k, l \in 1..Len(tasks) :
        /\ tasks[k].type = "EvolveAppTask"
        /\ tasks[l].type = "EvolveAppTask"
        /\ tasks[k].evolution_required
        /\ tasks[l].evolution_required
        /\ EventsOf("applied_evolution", tasks[k]) # {}
        /\ EventsOf("ran", tasks[k]) # {}
        /\ EventsOf("raised", tasks[l]) # {}
        /\ EventsOf("applying_evolution", tasks[l]) # {}

\* Whether two dictionaries have the same keys in the same order, and the
\* same values but for the given key.
SameBut(d, e, key) ==
    /\ Len(d) = Len(e)
    /\ \A i \in 1..Len(d) :
          /\ d[i].key = e[i].key
          /\ d[i].key # key => d[i].value = e[i].value

\* C35: DeleteField.simulate on a field that the model has and that is not
\* its primary key removes that field and no other from the model's
\* fields, removes its name from every entry of unique_together, the names
\* left staying in their order, and changes nothing else in the model, in
\* the other models or in the other applications.
C35_DeleteFieldRemovesOneField ==
    (/\ simulated.op = "simulate"
     /\ simulated.mutation.class = "DeleteField"
     /\ ~ModelAbsent(simulated.mutation, simulated.app_label,
                     simulated.before)
     /\ ~FieldAbsent(simulated.mutation, simulated.app_label,
                     simulated.before)
     /\ LET field == Field(simulated.mutation, simulated.app_label,
                           simulated.before)
        IN  ~("primary_key" \in DOMAIN field /\ field.primary_key = "True"))
        =>
        LET self == simulated.mutation
            app_label == simulated.app_label
            old == ModelSig(self, app_label, simulated.before)
            new == ModelSig(self, app_label, proj_sig_dict)
            kept == {i \in 1..Len(old.fields) :
                        old.fields[i].key # self.field_name}
        IN  /\ simulated.exc = NoException
            /\ SameBut(proj_sig_dict, simulated.before, app_label)
            /\ SameBut(Item(proj_sig_dict, app_label),
                       Item(simulated.before, app_label), self.model_name)
            /\ Len(new.fields) = Len(old.fields) - 1
            /\ \A i \in kept :
                  new.fields[Cardinality({j \in kept : j <= i})]
                      = old.fields[i]
            /\ DOMAIN new.meta = DOMAIN old.meta
            /\ \A prop \in DOMAIN old.meta \ {"unique_together"} :
                  new.meta[prop] = old.meta[prop]
            /\ Len(new.meta.unique_together)
                  = Len(old.meta.unique_together)
            /\ \A i \in 1..Len(old.meta.unique_together) :
                  LET ut == old.meta.unique_together[i]
                      left == {j \in 1..Len(ut) : ut[j] # self.field_name}
                      new_ut == new.meta.unique_together[i]
                  IN  /\ Len(new_ut) = Cardinality(left)
                      /\ \A j \in left :
                            new_ut[Cardinality({k \in left : k <= j})]
                                = ut[j]

\* The field 'age' of app1.M, named first in a unique_together entry, was
\* deleted, and the entry holds 'nickname' only.
C35_Witness ==
    /\ simulated.op = "simulate"
    /\ simulated.mutation.class = "DeleteField"
    /\ simulated.mutation.field_name = "age"
    /\ simulated.exc = NoException
    /\ HasItem(simulated.before, "app1")
    /\ HasItem(Item(simulated.before, "app1"), "M")
    /\ Item(Item(simulated.before, "app1"), "M").meta.unique_together
          = << <<"age", "nickname">> >>
    /\ Item(Item(proj_sig_dict, "app1"), "M").meta.unique_together
          = << <<"nickname">> >>
    /\ Len(Item(Item(proj_sig_dict, "app1"), "M").fields) = 4

\* The attributes given to the mutated ChangeField whose value is not the
\* one the field has in the signature, or the default of the attribute
\* when the field has none.
DifferingAttrs ==
    LET field == Field(simulated.mutation, simulated.app_label,
                       simulated.before)
        given == simulated.mutation.field_attrs
    IN  {attr \in DOMAIN given :
            given[attr] # IF attr \in DOMAIN field THEN field[attr]
                          ELSE GlobalAttributeDefaults[attr]}

\* C36: ChangeField.mutate, given attributes that the backend supports,
\* schedules one change of the column that names exactly the attributes
\* whose new value differs from the value the field has (from the default
\* when it has none), and schedules nothing when none differs.
C36_SchedulesDifferingAttrsOnly ==
    (/\ simulated.op = "mutate"
     /\ simulated.mutation.class = "ChangeField"
     /\ DOMAIN simulated.mutation.field_attrs \subseteq supported_change_attrs)
        => /\ simulated.exc = NoException
           /\ IF DifferingAttrs = {}
              THEN mutator_ops = simulated.ops_before
              ELSE /\ Len(mutator_ops) = Len(simulated.ops_before) + 1
                   /\ SubSeq(mutator_ops, 1, Len(simulated.ops_before))
                         = simulated.ops_before
                   /\ LET scheduled == mutator_ops[Len(mutator_ops)]
                      IN  /\ scheduled.op = "change_column"
                          /\ scheduled.field_name
                                = simulated.mutation.field_name
                          /\ scheduled.new_attrs = DifferingAttrs

\* After a ChangeField to max_length 20 was simulated, which the signature
\* of the field now holds, and a change of the column scheduled, the
\* ChangeField to max_length 20 was mutated again and scheduled nothing.
C36_Witness ==
    /\ simulated.op = "mutate"
    /\ simulated.mutation.class = "ChangeField"
    /\ DOMAIN simulated.mutation.field_attrs = {"max_length"}
    /\ "max_length" \in DOMAIN Field(simulated.mutation,
                                     simulated.app_label, simulated.before)
    /\ DifferingAttrs = {}
    /\ simulated.exc = NoException
    /\ mutator_ops = simulated.ops_before

\* C37: whenever the simulate() of a mutation raises SimulationFailure or
\* CannotSimulate, the project signature is exactly as it was before the
\* call: no attribute, field, model or meta value was updated.
C37_FailedSimulationChangesNothing ==
    (/\ simulated.op = "simulate"
     /\ simulated.exc \in {"SimulationFailure", "CannotSimulate"})
        => proj_sig_dict = simulated.before

\* C38: whenever evolve() has executed a task or saved a Version, prepare()
\* has returned without raising on every queued task; so it is too when an
\* earlier reading of the tasks, or an earlier evolve(), was aborted
\* because the prepare() of a task raised.
C38_ExecutesPreparedTasksOnly ==
    (\/ call.executed # <<>>
     \/ pc = "committed"
     \/ Len(db.versions) > Len(call.db_before.versions))
        => \A i \in 1..Len(tasks) : tasks[i].prepared

\* C39: after a RenameField.simulate that raised nothing, the model has as
\* many fields as before, whatever the new name is, one that already names
\* another field of the model included: every other field of the model is
\* still there with the signature it had.
C39_RenameFieldLosesNoField ==
    (/\ simulated.op = "simulate"
     /\ simulated.mutation.class = "RenameField"
     /\ simulated.exc = NoException)
        =>
        LET self == simulated.mutation
            old == ModelSig(self, simulated.app_label, simulated.before)
            new == ModelSig(self, simulated.app_label, proj_sig_dict)
        IN  /\ Len(new.fields) = Len(old.fields)
            /\ \A i \in 1..Len(old.fields) :
                  old.fields[i].key # self.old_field_name
                      => /\ HasItem(new.fields, old.fields[i].key)
                         /\ Item(new.fields, old.fields[i].key)
                               = old.fields[i].value

====
